---------------------------- MODULE Spec2Model ----------------------------
(***************************************************************************)
(* The healing orchestrator of CICD_AA/backend: run_pipeline (agents.py)   *)
(* with its sub-agents _generate_tests and _apply_fix, the code-generation *)
(* client (llm_client.py) and the clone cleanup (git_utils.py).            *)
(*                                                                         *)
(* One behaviour is one call of run_pipeline.  The collaborators (git, the *)
(* test runner, the model backends, the file system) answer                *)
(* nondeterministically.                                                   *)
(***************************************************************************)
EXTENDS Integers, Sequences, FiniteSets, TLC

(***************************************************************************)
(* Program constants and bounds of the model                               *)
(***************************************************************************)
\* agents.py:34
MAX_RETRIES == 5
\* agents.py:274  scored_files[:5]
TopCandidates == 5
\* longest aggregated failure list one pass may report
MaxFailures == 2
\* most failure records the test runner reports over one run
MaxFixes == 5

(***************************************************************************)
(* Text.  A text is a sequence of characters; "nl" and "sp" are white      *)
(* space.  str.strip() removes white space at both ends.                   *)
(***************************************************************************)
IsSpace(c) == c \in {"nl", "sp"}

RECURSIVE LStrip(_)
LStrip(s) == IF s # <<>> /\ IsSpace(Head(s)) THEN LStrip(Tail(s)) ELSE s

RECURSIVE RStrip(_)
RStrip(s) ==
    IF s # <<>> /\ IsSpace(s[Len(s)]) THEN RStrip(SubSeq(s, 1, Len(s) - 1)) ELSE s

Strip(s) == RStrip(LStrip(s))

\* content of the target files when the run starts
InitContents == { <<"a", "nl">> }
\* contents a target file may hold when _apply_fix is called
FileContents == { <<"a", "nl">>, <<"a">>, <<"b">> }
\* raw answers of a model backend (none of them carries a ``` fence)
BackendTexts == { <<>>, <<"a">>, <<"a", "nl">>, <<"b">> }
\* a backend call either raises or answers with a text
BackendFail == <<"raise">>
BackendAnswers == {BackendFail} \cup BackendTexts

(***************************************************************************)
(* Paths are sequences of segments.                                        *)
(***************************************************************************)
RepoDir   == <<"cloned_repos", "r1_repo">>
SrcCalc   == <<"src", "calc.py">>
SrcGone   == <<"src", "gone.py">>
VendorLib == <<"lib", "site-packages", "six.py">>
VenvGone  == <<".venv", "gone.py">>

AppDataLib == <<"AppData", "Local", "lib.py">>

\* the files a failure record may name
FailureFiles == {SrcCalc, SrcGone, VendorLib, VenvGone, AppDataLib}
\* the files the failure records of a run name
RunFailureFiles == {SrcCalc, VendorLib}
\* those of them that exist in the checkout
ExistingFiles == {SrcCalc, VendorLib}

\* `marker in fpath_str`: no marker holds a "/", so the joined path contains
\* the marker exactly when one of its segments does.
SegContains(seg, marker) ==
    \/ seg = marker
    \/ <<seg, marker>> \in { <<"old.venv", ".venv">> }

PathContains(path, marker) ==
    \E k \in 1..Len(path) : SegContains(path[k], marker)

\* agents.py:336-337
IsVendorPath(full_path) ==
    \/ PathContains(full_path, "site-packages")
    \/ PathContains(full_path, ".venv")
    \/ PathContains(full_path, "AppData")

(***************************************************************************)
(* llm_client.py                                                           *)
(***************************************************************************)
\* _strip_markdown on a text without a ``` fence: text.strip()
_strip_markdown(text) == Strip(text)

\* generate_fix with the local backend asked first
generate_fix_LocalFirst(nvidia, ollama, original_code) ==
    IF ollama # BackendFail THEN _strip_markdown(Strip(ollama))
    ELSE IF nvidia # BackendFail THEN _strip_markdown(Strip(nvidia))
    ELSE original_code

\* generate_fix: the remote backend, then the local one, then the original.
\* _call_nvidia strips its answer; the local answer is stripped on line 127.
generate_fix(nvidia, ollama, original_code) ==
    IF nvidia # BackendFail THEN _strip_markdown(Strip(nvidia))
    ELSE IF ollama # BackendFail THEN _strip_markdown(Strip(ollama))
    ELSE original_code

\* explain_error: the first line of the remote answer, else the template
explain_error(nvidia) ==
    IF nvidia # BackendFail /\ Strip(nvidia) # <<>> THEN "llm" ELSE "fallback"

\* generate_tests_for_code: an exception of the backend is caught and a
\* "// Generation failed" text is RETURNED as the test body.
generate_tests_for_code(nvidia) ==
    IF nvidia # BackendFail THEN "tests" ELSE "generation_failed_marker"

(***************************************************************************)
(* The cloned repository                                                   *)
(***************************************************************************)
TestCalc == "tests/test_calc.py"
AppPy    == "app.py"
UtilPy   == "lib/util.py"
ReadMe   == "README.md"

\* the working trees a clone may deliver
RepoTrees == { {ReadMe}, {AppPy, ReadMe}, {TestCalc, AppPy} }

\* git_utils.get_all_files: every file of the trees above has an indexed suffix
get_all_files(tree) == tree

\* _discover_tests: stem starts with "test_" or ends with "_test"
_discover_tests(tree) == tree \cap {TestCalc}

\* _generate_tests, lines 262-274: source suffix, and no "test", "spec" or
\* "setup" in the path; the five best scored are kept.
Candidates(indexed) ==
    LET suitable == indexed \cap {AppPy, UtilPy}
    IN  IF Cardinality(suitable) <= TopCandidates THEN suitable
        ELSE CHOOSE c \in SUBSET suitable : Cardinality(c) = TopCandidates

\* lines 304-305: test_{stem}.py, written to the root of the checkout
TestNameOf(candidate) ==
    IF candidate = AppPy THEN "test_app.py" ELSE "test_util.py"

\* _generate_tests, lines 296-316: a candidate yields a test file unless
\* generate_tests_for_code or write_text raises
GeneratedFiles(cands, answer, written) ==
    { TestNameOf(c) : c \in { x \in cands : written[x] } }

(***************************************************************************)
(* State of one run                                                        *)
(***************************************************************************)
VARIABLES
    pc,            \* position in run_pipeline
    github_pat,    \* GITHUB_PAT is set (agents.py:33)
    repo,          \* "None" or "Repo"
    checkout,      \* working checkout: "absent", "present", "removed"
    files,         \* live["files"]
    test_files,
    gen_log,       \* per candidate: the body generated and whether written
    phase,         \* live["phase"]
    message,       \* live["message"]
    iteration,
    all_failures,
    fix_i,         \* index of the failure the fix loop is at
    fixed_files,
    all_fixes,
    push_success,
    commit_count,
    ci_timeline,
    final_status,
    disk,          \* content of the existing target files
    lastFix,       \* what the call of _apply_fix under test did
    pending,       \* how the try block ended: "none", "returned", "raised"
    raised_in,     \* the step whose exception ended the try block
    outcome,       \* what the caller of run_pipeline got
    result,        \* the results dict returned
    artifact,      \* results.json: "none", "written", "removed"
    branch_calls,  \* calls of create_branch
    writes_before_branch, \* files written into the checkout before the branch
    nExec,         \* test passes executed
    nFixCalls,     \* calls of _apply_fix
    nCommit,       \* calls of commit_and_push
    nPoll,         \* calls of _poll_github_ci
    cleanup_calls, \* calls of cleanup_clone
    cleanup_result, \* "none", "removed", "leftover", "raised"
    \* the parts of the backend checked on their own
    run,           \* main.py: runs[run_id], the entry of the run store
    worker,        \* main.py: position of _background_run
    pollers,       \* main.py: the calls of get_results in progress
    lastCall,      \* a function called on its own: arguments and result
    futures,       \* agents.py:118: the test units submitted in a pass
    ci_poll,       \* agents.py: position and result of _poll_github_ci
    terminal_output, \* live["terminal_output"]
    live_iterations  \* live["iterations"]: the list of main.py:132 or ci_timeline

vars == << pc, github_pat, repo, checkout, files, test_files, gen_log, phase,
           message, iteration, all_failures, fix_i, fixed_files, all_fixes,
           push_success, commit_count, ci_timeline, final_status, disk,
           lastFix, pending, raised_in, outcome, result, artifact, branch_calls,
           writes_before_branch, nExec, nFixCalls, nCommit, nPoll,
           cleanup_calls, cleanup_result,
           run, worker, pollers, lastCall, futures, ci_poll,
           terminal_output, live_iterations >>

\* the state of run_pipeline
runVars == << pc, github_pat, repo, checkout, files, test_files, gen_log, phase,
              message, iteration, all_failures, fix_i, fixed_files, all_fixes,
              push_success, commit_count, ci_timeline, final_status, disk,
              lastFix, pending, raised_in, outcome, result, artifact,
              branch_calls, writes_before_branch, nExec, nFixCalls, nCommit,
              nPoll, cleanup_calls, cleanup_result >>
\* the state of the parts checked on their own
sideVars == << run, worker, pollers, lastCall, futures, ci_poll,
              terminal_output, live_iterations >>
\* the parts of the live record that only the live updates are checked with
liveVars == << terminal_output, live_iterations >>

loopVars == << iteration, all_failures, fix_i, fixed_files, all_fixes,
               push_success, commit_count, ci_timeline, final_status >>
fixVars  == << disk, lastFix, nFixCalls >>
tryVars  == << pending, raised_in >>
setupVars == << github_pat, repo, files, test_files, gen_log, branch_calls,
                writes_before_branch >>
exitVars == << checkout, outcome, result, artifact, cleanup_calls,
              cleanup_result >>
countVars == << nExec, nCommit, nPoll >>

None == "None"
\* "sha": None (line 347)
NoSha == 0
NoEntry == [status |-> "none"]
NoResult == [final_ci_status |-> "none"]
NoFix == [call |-> "none"]
NoCall == [fn |-> "none"]
NoRun == [status |-> "absent"]
NoPoll == [at |-> "idle"]

\* main.py lines 132 and 134: the live record of a run as analyze stores it
LiveIdle ==
    /\ terminal_output = <<>>
    /\ live_iterations = "initial"

\* nothing but run_pipeline is under way
SideIdle ==
    /\ run = NoRun
    /\ worker = "none"
    /\ pollers = <<>>
    /\ lastCall = NoCall
    /\ futures = <<>>
    /\ ci_poll = NoPoll
    /\ LiveIdle

Init ==
    /\ pc = "clone"
    /\ github_pat \in BOOLEAN
    /\ repo = None
    /\ checkout = "absent"
    /\ files = {}
    /\ test_files = {}
    /\ gen_log = {}
    /\ phase = "queued"
    /\ message = <<"Queued">>
    /\ iteration = 0
    /\ all_failures = <<>>
    /\ fix_i = 0
    /\ fixed_files = <<>>
    /\ all_fixes = <<>>
    /\ push_success = FALSE
    /\ commit_count = 0
    /\ ci_timeline = <<>>
    /\ final_status = "unset"
    /\ disk \in [ExistingFiles -> InitContents]
    /\ lastFix = NoFix
    /\ pending = "none"
    /\ raised_in = "none"
    /\ outcome = "none"
    /\ result = NoResult
    /\ artifact = "none"
    /\ branch_calls = 0
    /\ writes_before_branch = 0
    /\ nExec = 0
    /\ nFixCalls = 0
    /\ nCommit = 0
    /\ nPoll = 0
    /\ cleanup_calls = 0
    /\ cleanup_result = "none"
    /\ SideIdle

\* an exception leaves the try block of run_pipeline (there is no except
\* clause): control goes to the finally clause
Raise(step) ==
    /\ pc' = "finally"
    /\ pending' = "raised"
    /\ raised_in' = step

(***************************************************************************)
(* 1. Discovery, lines 71-93                                               *)
(***************************************************************************)
\* lines 71-76: clone_repo and get_all_files
Clone ==
    /\ pc = "clone"
    /\ UNCHANGED sideVars
    /\ phase' = "discovery"
    /\ \/ \E tree \in RepoTrees :
            /\ repo' = "Repo"
            /\ checkout' = "present"
            /\ files' = get_all_files(tree)
            /\ pc' = "discover"
            /\ message' = <<"Cloned repo">>
            /\ UNCHANGED tryVars
       \/ \* clone_repo raises: repo stays None
          /\ Raise("clone")
          /\ message' = <<"Cloning repository">>
          /\ UNCHANGED << repo, checkout, files >>
    /\ UNCHANGED << github_pat, test_files, gen_log, branch_calls,
                    writes_before_branch, outcome, result, artifact,
                    cleanup_calls, cleanup_result >>
    /\ UNCHANGED << loopVars, fixVars, countVars >>

\* lines 79-82
Discover ==
    /\ pc = "discover"
    /\ UNCHANGED sideVars
    /\ test_files' = _discover_tests(files)
    /\ pc' = IF test_files' = {} THEN "generate" ELSE "branch"
    /\ message' = <<"Found test file(s)">>
    /\ UNCHANGED << github_pat, repo, files, gen_log, branch_calls,
                    writes_before_branch, phase >>
    /\ UNCHANGED << loopVars, fixVars, countVars, exitVars, tryVars >>

\* lines 83-89: _generate_tests writes one test file per candidate into the
\* checkout
GenerateTests ==
    /\ pc = "generate"
    /\ UNCHANGED sideVars
    /\ LET cands == Candidates(files)
       IN  \E answer \in [cands -> {BackendFail, <<"a">>}],
              written \in [cands -> BOOLEAN] :
              LET new_test_files == GeneratedFiles(cands, answer, written)
              IN  /\ gen_log' = { [candidate |-> c,
                                   body |-> generate_tests_for_code(answer[c]),
                                   written |-> written[c]] : c \in cands }
                  /\ writes_before_branch' =
                         writes_before_branch + Cardinality(new_test_files)
                  /\ IF new_test_files # {}
                     THEN /\ test_files' = new_test_files
                          /\ phase' = "generation"
                          /\ message' = <<"Generated test suite(s)">>
                          /\ pc' = "branch"
                     ELSE /\ test_files' = test_files
                          /\ phase' = "done"
                          /\ message' = <<"No test files found and generation failed">>
                          /\ pc' = "empty_result"
    /\ UNCHANGED << github_pat, repo, files, branch_calls >>
    /\ UNCHANGED << loopVars, fixVars, countVars, exitVars, tryVars >>

\* results_generator.py, lines 31-51: the score breakdown
\* max(0, n)
max0(n) == IF n > 0 THEN n ELSE 0

\* lines 35-45 without the max of line 45
score_breakdown_Unclamped(total_seconds, commits) ==
    LET base_score     == 100
        time_bonus     == IF total_seconds < 5 * 60 THEN 10 ELSE 0
        excess_commits == max0(commits - 20)
        commit_penalty == excess_commits * 2
        total_score    == base_score + time_bonus - commit_penalty
    IN  [ base |-> base_score, time_bonus |-> time_bonus,
          commit_penalty |-> commit_penalty, total |-> total_score ]

\* lines 35-45 with a penalty for every commit, not only those beyond 20
score_breakdown_EveryCommit(total_seconds, commits) ==
    LET base_score     == 100
        time_bonus     == IF total_seconds < 5 * 60 THEN 10 ELSE 0
        excess_commits == max0(commits)
        commit_penalty == excess_commits * 2
        total_score    == base_score + time_bonus - commit_penalty
    IN  [ base |-> base_score, time_bonus |-> time_bonus,
          commit_penalty |-> commit_penalty, total |-> max0(total_score) ]

\* lines 31-45
score_breakdown(total_seconds, commits) ==
    LET base_score     == 100
        time_bonus     == IF total_seconds < 5 * 60 THEN 10 ELSE 0
        excess_commits == max0(commits - 20)
        commit_penalty == excess_commits * 2
        total_score    == base_score + time_bonus - commit_penalty
    IN  [ base |-> base_score, time_bonus |-> time_bonus,
          commit_penalty |-> commit_penalty, total |-> max0(total_score) ]

\* end_time - start_time of a run, in seconds: below and at five minutes
RunDurations == { 299, 300 }

\* lines 53-54: sum(1 for f in fixes if f.get("status") == status)
CountStatus(fixes, status) ==
    Cardinality({ k \in DOMAIN fixes : fixes[k].status = status })

\* results_generator.generate_results, lines 31-76: the run summary (without
\* the identity of the run and its times), the score, the fixes and the
\* timeline
generate_results(fixes, ci_iterations, total_seconds, status, commits) ==
    [ failures_found  |-> Len(fixes),
      fixes_applied   |-> CountStatus(fixes, "fixed"),
      fixes_failed    |-> CountStatus(fixes, "failed"),
      final_ci_status |-> status,
      total_commits   |-> commits,
      score_breakdown |-> score_breakdown(total_seconds, commits),
      fixes_table     |-> fixes,
      cicd_timeline   |-> ci_iterations ]

\* lines 137-144 with the pass counted from zero
Summary_ZeroBased(iter, failures_count) ==
    [ iteration      |-> iter - 1,
      status         |-> IF failures_count = 0 THEN "PASS" ELSE "FAIL",
      failures_count |-> failures_count ]

\* one Iteration Summary, lines 137-144
Summary(iter, failures_count) ==
    [ iteration      |-> iter,
      status         |-> IF failures_count = 0 THEN "PASS" ELSE "FAIL",
      failures_count |-> failures_count ]

\* lines 89-93 and _build_empty_result: one synthetic summary, status PASSED
EmptyResult ==
    /\ pc = "empty_result"
    /\ UNCHANGED sideVars
    /\ \/ /\ \E total_seconds \in RunDurations :
                result' = generate_results(<<>>, << Summary(1, 0) >>,
                                           total_seconds, "PASSED", 0)
          /\ artifact' = "written"
          /\ pending' = "returned"
          /\ pc' = "finally"
          /\ UNCHANGED raised_in
       \/ \* results.json cannot be written
          /\ Raise("results")
          /\ UNCHANGED << result, artifact >>
    /\ UNCHANGED << checkout, outcome, cleanup_calls, cleanup_result, phase,
                    message >>
    /\ UNCHANGED << setupVars, loopVars, fixVars, countVars >>

(***************************************************************************)
(* 2. Branching, lines 98-99                                               *)
(***************************************************************************)
CreateBranch ==
    /\ pc = "branch"
    /\ UNCHANGED sideVars
    /\ phase' = "branching"
    /\ message' = <<"Creating branch">>
    /\ branch_calls' = branch_calls + 1
    /\ \/ /\ pc' = "execute"
          /\ UNCHANGED tryVars
          /\ final_status' = "FAILED"              \* line 104
       \/ \* create_branch raises (the branch exists already)
          /\ Raise("branch")
          /\ UNCHANGED final_status
    /\ UNCHANGED << github_pat, repo, files, test_files, gen_log,
                    writes_before_branch >>
    /\ UNCHANGED << iteration, all_failures, fix_i, fixed_files, all_fixes,
                    push_success, commit_count, ci_timeline >>
    /\ UNCHANGED << fixVars, countVars, exitVars >>

(***************************************************************************)
(* The Fix Applicator, _apply_fix, lines 323-379                           *)
(***************************************************************************)
Exists(src_file) == src_file \in ExistingFiles

\* line 366 without the comparison with the original
AcceptFix_AnyNonEmpty(fixed_code, original_code) == fixed_code # <<>>

\* line 366: if fixed_code and fixed_code != original_code
AcceptFix(fixed_code, original_code) ==
    fixed_code # <<>> /\ fixed_code # original_code

\* lines 340-349 with the pass counted from zero
NewFixEntry_ZeroBased(src_file, iter) ==
    [ file      |-> src_file,
      status    |-> "failed",
      sha       |-> NoSha,
      iteration |-> iter - 1 ]

\* lines 340-349.  bug_type, line and error_message are copied from the
\* failure record and read by nobody; commit_message and the "error" key of
\* line 377 are kept in the call's record below instead of the entry.
NewFixEntry(src_file, iter) ==
    [ file      |-> src_file,
      status    |-> "failed",
      sha       |-> NoSha,
      iteration |-> iter ]

\* How the collaborators answer one call: io is the file system ("ok",
\* "read_error", "write_error"); nvidia and ollama are the backends' answers
\* to the fix prompt; nvidia_msg is the remote answer to the commit-message
\* prompt.
FixInputs ==
    [ io : {"ok", "read_error", "write_error"},
      nvidia : BackendAnswers,
      ollama : BackendAnswers,
      nvidia_msg : {BackendFail, <<"a">>} ]

\* the answers drawn during a run: the local backend is down and no commit
\* message is obtained
RunFixInputs ==
    { i \in FixInputs : i.ollama = BackendFail /\ i.nvidia_msg = BackendFail }

\* What one call does: whether it raised, the entry returned, the disk
\* afterwards, and which steps were taken.
_apply_fix(d, failure, iter, inp) ==
    LET src_file  == failure.file
        full_path == RepoDir \o src_file
        entry     == NewFixEntry(src_file, iter)
        quiet     == [ raised |-> FALSE, entry |-> entry, disk |-> d,
                       read |-> FALSE, generated |-> FALSE, wrote |-> FALSE,
                       explained |-> FALSE, original_code |-> <<>>,
                       fixed_code |-> <<>>, commit_message |-> "",
                       error |-> FALSE ]
    IN  IF IsVendorPath(full_path)
        THEN \* line 339 returns fix_entry before line 340 binds it:
             \* UnboundLocalError, outside the try of line 355
             [ quiet EXCEPT !.raised = TRUE, !.entry = NoEntry ]
        ELSE IF ~Exists(src_file)
        THEN quiet                                          \* lines 351-353
        ELSE IF inp.io = "read_error"
        THEN [ quiet EXCEPT !.error = TRUE ]                \* lines 375-377
        ELSE
            LET original_code == d[src_file]
                fixed_code == generate_fix(inp.nvidia, inp.ollama, original_code)
                tried == [ quiet EXCEPT !.read = TRUE, !.generated = TRUE,
                                        !.original_code = original_code,
                                        !.fixed_code = fixed_code ]
            IN  IF ~AcceptFix(fixed_code, original_code)
                THEN tried                                  \* lines 372-373
                ELSE IF inp.io = "write_error"
                THEN [ tried EXCEPT !.error = TRUE ]
                ELSE [ tried EXCEPT
                         !.wrote = TRUE,
                         !.explained = TRUE,
                         !.disk = [ d EXCEPT ![src_file] = fixed_code ],
                         !.commit_message = explain_error(inp.nvidia_msg),
                         !.entry.status = "fixed" ]

(***************************************************************************)
(* 3. The heal loop, lines 104-193                                         *)
(***************************************************************************)
\* the aggregated failure lists one pass may report
FailureLists ==
    UNION { [1..n -> [file : RunFailureFiles]] : n \in 0..MaxFailures }

\* line 106 as a loop that never ends by itself
LoopContinues_Forever(iter) == TRUE

\* line 106: for iteration in range(1, MAX_RETRIES + 1)
LoopContinues(iter) == iter < MAX_RETRIES

\* lines 147-150 without the break: the pass goes on with no failure to fix
AfterTests_NoBreak(fails) == IF fails = <<>> THEN "commit" ELSE "fix"

\* lines 147-153: break out of the loop when no failure was aggregated
AfterTests(fails) == IF fails = <<>> THEN "results" ELSE "fix"

\* lines 108-111: the live phase while the test files of a pass run
PassPhase_Discovery == "discovery"
PassPhase == "execution"

\* lines 106-131: a pass begins and runs its test files
ExecuteTests ==
    /\ pc = "execute"
    /\ UNCHANGED sideVars
    /\ iteration' = iteration + 1
    /\ nExec' = nExec + 1
    /\ phase' = PassPhase
    /\ message' = <<"running test file(s) in parallel">>
    /\ \E fails \in FailureLists :
          /\ Len(all_fixes) + Len(fails) <= MaxFixes
          /\ all_failures' = fails
    /\ pc' = "diagnose"
    /\ UNCHANGED << all_fixes, push_success, commit_count, nCommit, nPoll,
                    ci_timeline, final_status, fix_i, fixed_files >>
    /\ UNCHANGED << setupVars, fixVars, exitVars, tryVars >>

\* lines 133-154: the Iteration Summary of the pass and what follows it
Diagnose ==
    /\ pc = "diagnose"
    /\ UNCHANGED sideVars
    /\ ci_timeline' = Append(ci_timeline,
                             Summary(iteration, Len(all_failures)))
    /\ final_status' = IF all_failures = <<>> THEN "PASSED" ELSE final_status
    /\ phase' = IF all_failures = <<>> THEN "done" ELSE "fixing"
    /\ message' = IF all_failures = <<>> THEN <<"All tests passing">>
                   ELSE <<"Found failure(s)">>
    /\ pc' = AfterTests(all_failures)
    /\ fix_i' = 1
    /\ fixed_files' = <<>>
    /\ UNCHANGED << iteration, nExec, all_failures, all_fixes, push_success,
                    commit_count, nCommit, nPoll >>
    /\ UNCHANGED << setupVars, fixVars, exitVars, tryVars >>

\* line 156: for i, failure in enumerate(all_failures)
NextFailure_Reversed(fails, i) == fails[Len(fails) + 1 - i]
NextFailure(fails, i) == fails[i]

\* lines 156-164: the fix loop's body for the failure at fix_i
ApplyFix ==
    /\ pc = "fix"
    /\ UNCHANGED sideVars
    /\ nFixCalls' = nFixCalls + 1
    /\ message' = <<"Applying LLM fix">>                  \* line 158
    /\ \E inp \in RunFixInputs :
          LET r == _apply_fix(disk, NextFailure(all_failures, fix_i), iteration,
                              inp)
          IN  /\ disk' = r.disk
              /\ IF r.raised
                 THEN /\ Raise("fix")
                      /\ UNCHANGED << all_fixes, fixed_files, fix_i, phase >>
                 ELSE /\ all_fixes' = Append(all_fixes, r.entry)
                      /\ fixed_files' =
                            IF r.entry.status = "fixed"
                            THEN Append(fixed_files, r.entry.file)
                            ELSE fixed_files
                      /\ fix_i' = fix_i + 1
                      /\ pc' = IF fix_i = Len(all_failures) THEN "commit" ELSE "fix"
                      /\ phase' = "fixing"
                      /\ UNCHANGED tryVars
              /\ writes_before_branch' =
                    IF r.wrote /\ branch_calls = 0
                    THEN writes_before_branch + 1 ELSE writes_before_branch
    /\ UNCHANGED << iteration, all_failures, push_success, commit_count,
                    ci_timeline, final_status, lastFix >>
    /\ UNCHANGED << github_pat, repo, files, test_files, gen_log,
                    branch_calls >>
    /\ UNCHANGED << countVars, exitVars >>

\* lines 177-179: the sha goes to every entry of the run that has none
BackfillSha(fixes, sha) ==
    [ k \in 1..Len(fixes) |->
        IF fixes[k].sha = NoSha THEN [ fixes[k] EXCEPT !.sha = sha ] ELSE fixes[k] ]

\* lines 166-182: one commit+push for the pass's fixed files, if any
Commit ==
    /\ pc = "commit"
    /\ UNCHANGED sideVars
    /\ IF fixed_files # <<>>
       THEN /\ nCommit' = nCommit + 1
            /\ phase' = "committing"
            /\ \/ \* commit_and_push returns the sha (the pass's own commit)
                  /\ commit_count' = commit_count + 1
                  /\ push_success' = TRUE
                  /\ all_fixes' = BackfillSha(all_fixes, iteration)
                  /\ message' = <<"Committed and Pushed">>
               \/ \* commit_and_push raises: caught on line 180
                  /\ push_success' = FALSE
                  /\ message' = <<"Push failed">>            \* line 182
                  /\ UNCHANGED << commit_count, all_fixes >>
       ELSE /\ push_success' = FALSE
            /\ UNCHANGED << nCommit, phase, message, commit_count, all_fixes >>
    /\ pc' = "poll"
    /\ UNCHANGED << iteration, all_failures, fix_i, fixed_files, ci_timeline,
                    final_status, nExec, nPoll >>
    /\ UNCHANGED << setupVars, fixVars, exitVars, tryVars >>

\* what _poll_github_ci may return, lines 386-428
CiStatuses == {"success", "failure", "pending", "auth_error", "unknown"}

\* line 188: the poll's result goes into the live message and nowhere else
CiMessage(ci_status) == <<"GitHub CI Status", ci_status>>

\* line 185 with the poll made whenever a credential is configured
PollWanted_PatOnly(pat, pushed) == pat

\* line 185: if GITHUB_PAT and push_success
PollWanted(pat, pushed) == pat /\ pushed

\* the end of the pass with a successful CI result ending the loop
AfterPoll_StopOnSuccess(iter, ci_status) ==
    IF ci_status = "success" \/ ~LoopContinues(iter) THEN "results" ELSE "execute"

\* lines 184-193 and 106: where the pass goes after the poll; ci_status is
\* read by nothing but the message of line 188
AfterPoll(iter, ci_status) ==
    IF LoopContinues(iter) THEN "execute" ELSE "results"

\* lines 184-193: the optional CI poll, answered with ci_status, and the end
\* of the pass
PollStep(ci_status) ==
    /\ pc = "poll"
    /\ UNCHANGED sideVars
    /\ nPoll' = IF PollWanted(github_pat, push_success) THEN nPoll + 1 ELSE nPoll
    /\ phase' = IF iteration = MAX_RETRIES THEN "done"
                ELSE IF github_pat THEN "ci_poll"
                ELSE phase
    /\ message' = IF iteration = MAX_RETRIES THEN <<"Max retries reached">>
                  ELSE IF PollWanted(github_pat, push_success)
                       THEN CiMessage(ci_status)
                  ELSE IF github_pat THEN <<"Skipping CI poll">>
                  ELSE message
    /\ pc' = AfterPoll(iteration, ci_status)
    /\ UNCHANGED << nExec, nCommit >>
    /\ UNCHANGED << setupVars, loopVars, fixVars, exitVars, tryVars >>

PollCI == \E ci_status \in CiStatuses : PollStep(ci_status)

(***************************************************************************)
(* 4. Results, lines 198-213                                               *)
(***************************************************************************)
GenerateResults ==
    /\ pc = "results"
    /\ UNCHANGED sideVars
    /\ \/ /\ \E total_seconds \in RunDurations :
                result' = generate_results(all_fixes, ci_timeline,
                                           total_seconds, final_status,
                                           commit_count)
          /\ artifact' = "written"
          /\ pending' = "returned"
          /\ pc' = "finally"
          /\ UNCHANGED raised_in
       \/ \* results.json cannot be written
          /\ Raise("results")
          /\ UNCHANGED << result, artifact >>
    /\ UNCHANGED << checkout, outcome, cleanup_calls, cleanup_result, phase,
                    message >>
    /\ UNCHANGED << setupVars, loopVars, fixVars, countVars >>

(***************************************************************************)
(* The finally clause, lines 215-221, and git_utils.cleanup_clone          *)
(***************************************************************************)
\* cleanup placed after the return instead of in a finally clause
ShouldCleanup_OnReturnOnly(r, how) == r # None /\ how = "returned"

\* line 217: if repo is not None
ShouldCleanup(r, how) == r # None

\* cleanup_clone: rmtree(ignore_errors=True) removes the tree or leaves it
\* behind without raising; an exception of cleanup_clone itself is swallowed
\* on lines 220-221.
Finally ==
    /\ pc = "finally"
    /\ UNCHANGED sideVars
    /\ IF ShouldCleanup(repo, pending)
       THEN /\ cleanup_calls' = cleanup_calls + 1
            /\ \E how \in {"removed", "leftover", "raised"} :
                  /\ cleanup_result' = how
                  /\ checkout' = IF how = "removed" THEN "removed" ELSE checkout
                  /\ artifact' = IF how = "removed" /\ artifact = "written"
                                 THEN "removed" ELSE artifact
       ELSE UNCHANGED << cleanup_calls, cleanup_result, checkout, artifact >>
    /\ outcome' = pending
    /\ pc' = "exit"
    /\ UNCHANGED << result, phase, message >>
    /\ UNCHANGED << setupVars, loopVars, fixVars, countVars, tryVars >>

Next ==
    \/ Clone
    \/ Discover
    \/ GenerateTests
    \/ EmptyResult
    \/ CreateBranch
    \/ ExecuteTests
    \/ Diagnose
    \/ ApplyFix
    \/ Commit
    \/ PollCI
    \/ GenerateResults
    \/ Finally

Spec == Init /\ [][Next]_vars

(***************************************************************************)
(* The Fix Applicator on its own: _apply_fix called with any failure       *)
(* record, any content of the target files and any answers of the          *)
(* collaborators.                                                          *)
(***************************************************************************)
InitFix ==
    /\ pc = "fix_idle"
    /\ github_pat = FALSE
    /\ repo = "Repo"
    /\ checkout = "present"
    /\ files = {}
    /\ test_files = {}
    /\ gen_log = {}
    /\ phase = "fixing"
    /\ message = <<"Applying LLM fix">>
    /\ iteration = 0
    /\ all_failures = <<>>
    /\ fix_i = 0
    /\ fixed_files = <<>>
    /\ all_fixes = <<>>
    /\ push_success = FALSE
    /\ commit_count = 0
    /\ ci_timeline = <<>>
    /\ final_status = "FAILED"
    /\ disk \in [ExistingFiles -> FileContents]
    /\ lastFix = NoFix
    /\ pending = "none"
    /\ raised_in = "none"
    /\ outcome = "none"
    /\ result = NoResult
    /\ artifact = "none"
    /\ branch_calls = 1
    /\ writes_before_branch = 0
    /\ nExec = 0
    /\ nFixCalls = 0
    /\ nCommit = 0
    /\ nPoll = 0
    /\ cleanup_calls = 0
    /\ cleanup_result = "none"
    /\ SideIdle

\* one call of _apply_fix, lines 323-379
FixCall ==
    /\ pc = "fix_idle"
    /\ UNCHANGED sideVars
    /\ \E failure \in [file : FailureFiles], iter \in 1..MAX_RETRIES,
          inp \in FixInputs :
          LET r == _apply_fix(disk, failure, iter, inp)
          IN  /\ lastFix' = [ call           |-> "done",
                              file           |-> failure.file,
                              full_path      |-> RepoDir \o failure.file,
                              existed        |-> Exists(failure.file),
                              disk_before    |-> disk,
                              iteration      |-> iter,
                              inp            |-> inp,
                              raised         |-> r.raised,
                              entry          |-> r.entry,
                              read           |-> r.read,
                              generated      |-> r.generated,
                              wrote          |-> r.wrote,
                              explained      |-> r.explained,
                              original_code  |-> r.original_code,
                              fixed_code     |-> r.fixed_code,
                              commit_message |-> r.commit_message,
                              error          |-> r.error ]
              /\ disk' = r.disk
    /\ pc' = "fix_called"
    /\ UNCHANGED << nFixCalls, countVars, setupVars, loopVars, exitVars,
                    tryVars, phase, message >>

\* the caller takes the entry; the next call finds the disk as this one left it
FixReturn ==
    /\ pc = "fix_called"
    /\ UNCHANGED sideVars
    /\ pc' = "fix_idle"
    /\ lastFix' = NoFix
    /\ UNCHANGED << disk, nFixCalls, countVars, setupVars, loopVars, exitVars,
                    tryVars, phase, message >>

NextFix ==
    \/ FixCall
    \/ FixReturn

SpecFix == InitFix /\ [][NextFix]_vars

(***************************************************************************)
(* run_pipeline at rest: the state of the run while another part of the    *)
(* backend is checked on its own.                                          *)
(***************************************************************************)
RunIdle ==
    /\ pc = "idle"
    /\ github_pat = FALSE
    /\ repo = None
    /\ checkout = "absent"
    /\ files = {}
    /\ test_files = {}
    /\ gen_log = {}
    /\ phase = "queued"
    /\ message = <<"Queued">>
    /\ iteration = 0
    /\ all_failures = <<>>
    /\ fix_i = 0
    /\ fixed_files = <<>>
    /\ all_fixes = <<>>
    /\ push_success = FALSE
    /\ commit_count = 0
    /\ ci_timeline = <<>>
    /\ final_status = "unset"
    /\ disk = [f \in ExistingFiles |-> <<"a", "nl">>]
    /\ lastFix = NoFix
    /\ pending = "none"
    /\ raised_in = "none"
    /\ outcome = "none"
    /\ result = NoResult
    /\ artifact = "none"
    /\ branch_calls = 0
    /\ writes_before_branch = 0
    /\ nExec = 0
    /\ nFixCalls = 0
    /\ nCommit = 0
    /\ nPoll = 0
    /\ cleanup_calls = 0
    /\ cleanup_result = "none"

(***************************************************************************)
(* main.py: the run store, the background worker of a run and the pollers. *)
(* The worker is a thread of its own (line 139); a poller is a call of     *)
(* get_results on the server's thread.  Every access to the store is one   *)
(* step, and the steps of the worker and of the pollers interleave freely. *)
(***************************************************************************)
Pollers == {"p1", "p2"}
RunIds == {"r1", "unknown"}

\* the payloads run_pipeline may return
Payloads == { [final_ci_status |-> "PASSED"], [final_ci_status |-> "FAILED"] }

IdlePoller ==
    [ at |-> "idle", run_id |-> "none", code |-> 0, status |-> "none",
      result |-> NoResult ]

\* everything of run_pipeline but what its caller gets
calleeVars == << pc, github_pat, repo, checkout, files, test_files, gen_log,
                 phase, message, iteration, all_failures, fix_i, fixed_files,
                 all_fixes, push_success, commit_count, ci_timeline,
                 final_status, disk, lastFix, pending, raised_in, artifact,
                 branch_calls, writes_before_branch, nExec, nFixCalls, nCommit,
                 nPoll, cleanup_calls, cleanup_result >>

InitApi ==
    /\ RunIdle
    /\ run = NoRun
    /\ worker = "none"
    /\ pollers = [p \in Pollers |-> IdlePoller]
    /\ lastCall = NoCall
    /\ futures = <<>>
    /\ ci_poll = NoPoll
    /\ LiveIdle

\* analyze, lines 119-144: the entry is stored, then the thread is started
analyze ==
    /\ run = NoRun
    /\ run' = [ status |-> "queued", result |-> NoResult, error |-> None ]
    /\ worker' = "line_84"
    /\ UNCHANGED << calleeVars, outcome, result, pollers, lastCall, futures,
                    ci_poll,
                    liveVars >>

\* _background_run, line 84
WorkerRunning ==
    /\ worker = "line_84"
    /\ run' = [ run EXCEPT !.status = "running" ]
    /\ worker' = "line_87"
    /\ UNCHANGED << calleeVars, outcome, result, pollers, lastCall, futures,
                    ci_poll,
                    liveVars >>

\* line 87: run_pipeline returns a payload or raises
WorkerPipeline ==
    /\ worker = "line_87"
    /\ \/ \E payload \in Payloads :
             /\ outcome' = "returned"
             /\ result' = payload
             /\ worker' = "line_95"
       \/ /\ outcome' = "raised"
          /\ result' = result
          /\ worker' = "line_100"
    /\ UNCHANGED << calleeVars, run, pollers, lastCall, futures, ci_poll,
                    liveVars >>

\* line 95
WorkerCompleted ==
    /\ worker = "line_95"
    /\ run' = [ run EXCEPT !.status = "completed" ]
    /\ worker' = "line_96"
    /\ UNCHANGED << calleeVars, outcome, result, pollers, lastCall, futures,
                    ci_poll,
                    liveVars >>

\* line 96
WorkerResult ==
    /\ worker = "line_96"
    /\ run' = [ run EXCEPT !.result = result ]
    /\ worker' = "done"
    /\ UNCHANGED << calleeVars, outcome, result, pollers, lastCall, futures,
                    ci_poll,
                    liveVars >>

\* line 100
WorkerFailed ==
    /\ worker = "line_100"
    /\ run' = [ run EXCEPT !.status = "failed" ]
    /\ worker' = "line_101"
    /\ UNCHANGED << calleeVars, outcome, result, pollers, lastCall, futures,
                    ci_poll,
                    liveVars >>

\* str(exc): the text of the exception, told by the step that raised it
str_exc(step) == << "exception raised in", step >>

\* line 101
WorkerError ==
    /\ worker = "line_101"
    /\ run' = [ run EXCEPT !.error = str_exc(raised_in) ]
    /\ worker' = "done"
    /\ UNCHANGED << calleeVars, outcome, result, pollers, lastCall, futures,
                    ci_poll,
                    liveVars >>

\* get_results, lines 152-158: 404 for an unknown run, else the status is read
PollStatus(p) ==
    /\ pollers[p].at = "idle"
    /\ \E id \in RunIds :
          pollers' = [ pollers EXCEPT ![p] =
              IF id = "unknown" \/ run = NoRun
              THEN [ IdlePoller EXCEPT !.at = "done", !.run_id = id, !.code = 404 ]
              ELSE [ IdlePoller EXCEPT !.at = "line_165", !.run_id = id,
                                       !.code = 200, !.status = run.status ] ]
    /\ UNCHANGED << runVars, run, worker, lastCall, futures, ci_poll,
                    liveVars >>

\* get_results, line 165: the result is read and the response is complete
PollResult(p) ==
    /\ pollers[p].at = "line_165"
    /\ pollers' = [ pollers EXCEPT ![p].at = "done", ![p].result = run.result ]
    /\ UNCHANGED << runVars, run, worker, lastCall, futures, ci_poll,
                    liveVars >>

\* the client has its response and may poll again
PollAgain(p) ==
    /\ pollers[p].at = "done"
    /\ pollers' = [ pollers EXCEPT ![p] = IdlePoller ]
    /\ UNCHANGED << runVars, run, worker, lastCall, futures, ci_poll,
                    liveVars >>

NextApi ==
    \/ analyze
    \/ WorkerRunning
    \/ WorkerPipeline
    \/ WorkerCompleted
    \/ WorkerResult
    \/ WorkerFailed
    \/ WorkerError
    \/ \E p \in Pollers : PollStatus(p)
    \/ \E p \in Pollers : PollResult(p)
    \/ \E p \in Pollers : PollAgain(p)

SpecApi == InitApi /\ [][NextApi]_vars

(***************************************************************************)
(* main.py and agents.py together: the worker of a run calls run_pipeline  *)
(* (line 87), whose steps are those of Next, and stores what it returned   *)
(* or raised.                                                              *)
(***************************************************************************)
\* lines 95 and 98: where the worker goes on after run_pipeline
AfterPipeline_AlwaysCompleted(how) == "line_95"
AfterPipeline(how) == IF how = "returned" THEN "line_95" ELSE "line_100"

\* line 87, a step of run_pipeline
Pipeline ==
    /\ worker = "line_87"
    /\ Next

\* line 87, run_pipeline has returned or raised
WorkerReturn ==
    /\ worker = "line_87"
    /\ pc = "exit"
    /\ worker' = AfterPipeline(outcome)
    /\ UNCHANGED << runVars, run, pollers, lastCall, futures, ci_poll,
                    liveVars >>

NextRun ==
    \/ analyze
    \/ WorkerRunning
    \/ Pipeline
    \/ WorkerReturn
    \/ WorkerCompleted
    \/ WorkerResult
    \/ WorkerFailed
    \/ WorkerError

SpecRun == Init /\ [][NextRun]_vars

(***************************************************************************)
(* main.py: derive_branch_name, lines 67-76.  A name is a sequence of      *)
(* characters; "sp" is the space.                                          *)
(***************************************************************************)
\* longest identity string drawn
MaxNameLen == 3

\* the characters of the identity strings drawn: a lower-case and an
\* upper-case letter, a digit, the space and a special character
NameChars == {"a", "B", "7", "sp", "-"}

Names(n) == UNION { [1..k -> NameChars] : k \in 0..n }

\* line 74: the class [A-Za-z0-9 ] of the regular expression
InRegexClass(c) == c \in {"a", "A", "B", "7", "sp"}

\* re.sub(r"[^A-Za-z0-9 ]", "", name)
re_sub(name) == SelectSeq(name, InRegexClass)

\* str.upper() that leaves the letters as they are
upper_Unchanged(name) == name

\* str.upper()
upper(name) ==
    [ k \in 1..Len(name) |-> IF name[k] = "a" THEN "A" ELSE name[k] ]

\* str.replace(" ", "_")
replace(name) ==
    [ k \in 1..Len(name) |-> IF name[k] = "sp" THEN "_" ELSE name[k] ]

\* line 76: the literal suffix of the f-string
BranchSuffix == <<"_", "A", "I", "_", "F", "i", "x">>

\* lines 74-76
derive_branch_name(team_name, leader_name) ==
    LET team   == replace(upper(Strip(re_sub(team_name))))
        leader == replace(upper(Strip(re_sub(leader_name))))
    IN  team \o <<"_">> \o leader \o BranchSuffix

InitBranch ==
    /\ RunIdle
    /\ run = NoRun
    /\ worker = "none"
    /\ pollers = <<>>
    /\ \E team_name \in Names(MaxNameLen), leader_name \in Names(MaxNameLen - 1) :
          lastCall = [ fn |-> "request", team_name |-> team_name,
                       leader_name |-> leader_name, branch_name |-> <<>> ]
    /\ futures = <<>>
    /\ ci_poll = NoPoll
    /\ LiveIdle

\* analyze, line 117
DeriveBranch ==
    /\ lastCall.fn = "request"
    /\ lastCall' = [ lastCall EXCEPT
                       !.fn = "derive_branch_name",
                       !.branch_name = derive_branch_name(lastCall.team_name,
                                                          lastCall.leader_name) ]
    /\ UNCHANGED << runVars, run, worker, pollers, futures, ci_poll,
                    liveVars >>

NextBranch == DeriveBranch

SpecBranch == InitBranch /\ [][NextBranch]_vars

(***************************************************************************)
(* docker_runner.py: texts as the classifier and the parser see them.  A   *)
(* text is written as a sequence of words; Chars gives the characters of a *)
(* word and Flatten those of a text, its words separated by one space.     *)
(***************************************************************************)
UpperCase == <<"A", "B", "C", "D", "E", "F", "G", "H", "I", "J", "K", "L", "M",
               "N", "O", "P", "Q", "R", "S", "T", "U", "V", "W", "X", "Y", "Z">>
LowerCase == <<"a", "b", "c", "d", "e", "f", "g", "h", "i", "j", "k", "l", "m",
               "n", "o", "p", "q", "r", "s", "t", "u", "v", "w", "x", "y", "z">>

\* str.lower()
lower(t) ==
    [ k \in 1..Len(t) |->
        IF \E u \in 1..26 : UpperCase[u] = t[k]
        THEN LowerCase[CHOOSE u \in 1..26 : UpperCase[u] = t[k]]
        ELSE t[k] ]

\* `needle in t`
MatchAt(t, needle, k) == \A j \in 1..Len(needle) : t[k + j - 1] = needle[j]

Contains(t, needle) ==
    \E k \in 1..(Len(t) - Len(needle) + 1) : MatchAt(t, needle, k)

\* the words the texts drawn are made of
ErrorWords ==
    { "IndentationError", "unexpected indent", "SyntaxError", "invalid syntax",
      "SYNTAX", "ImportError", "ModuleNotFoundError", "cannot import",
      "TypeError", "type error", "unsupported operand", "flake8",
      "pylint", "pep8", "unused import", "AssertionError",
      "assert 1 == 2", "indent", "import os" }

\* a word of 98 and one of 99 characters, to reach the 100th character of a
\* message
LongWords == {"x98", "x99"}

Chars(w) ==
    CASE w = "x98" -> [k \in 1..98 |-> "x"]
      [] w = "x99" -> [k \in 1..99 |-> "x"]
      [] w = "a" -> <<"a">>
      [] w = "b" -> <<"b">>
      [] w = "IndentationError" -> <<"I", "n", "d", "e", "n", "t", "a", "t",
        "i", "o", "n", "E", "r", "r", "o", "r">>
      [] w = "unexpected indent" -> <<"u", "n", "e", "x", "p", "e", "c", "t",
        "e", "d", "sp", "i", "n", "d", "e", "n", "t">>
      [] w = "SyntaxError" -> <<"S", "y", "n", "t", "a", "x", "E", "r", "r",
        "o", "r">>
      [] w = "invalid syntax" -> <<"i", "n", "v", "a", "l", "i", "d", "sp",
        "s", "y", "n", "t", "a", "x">>
      [] w = "SYNTAX" -> <<"S", "Y", "N", "T", "A", "X">>
      [] w = "ImportError" -> <<"I", "m", "p", "o", "r", "t", "E", "r", "r",
        "o", "r">>
      [] w = "ModuleNotFoundError" -> <<"M", "o", "d", "u", "l", "e", "N",
        "o", "t", "F", "o", "u", "n", "d", "E", "r", "r", "o", "r">>
      [] w = "cannot import" -> <<"c", "a", "n", "n", "o", "t", "sp", "i",
        "m", "p", "o", "r", "t">>
      [] w = "TypeError" -> <<"T", "y", "p", "e", "E", "r", "r", "o", "r">>
      [] w = "type error" -> <<"t", "y", "p", "e", "sp", "e", "r", "r", "o",
        "r">>
      [] w = "unsupported operand" -> <<"u", "n", "s", "u", "p", "p", "o",
        "r", "t", "e", "d", "sp", "o", "p", "e", "r", "a", "n", "d">>
      [] w = "flake8" -> <<"f", "l", "a", "k", "e", "8">>
      [] w = "pylint" -> <<"p", "y", "l", "i", "n", "t">>
      [] w = "pep8" -> <<"p", "e", "p", "8">>
      [] w = "unused import" -> <<"u", "n", "u", "s", "e", "d", "sp", "i",
        "m", "p", "o", "r", "t">>
      [] w = "AssertionError" -> <<"A", "s", "s", "e", "r", "t", "i", "o",
        "n", "E", "r", "r", "o", "r">>
      [] w = "assert 1 == 2" -> <<"a", "s", "s", "e", "r", "t", "sp", "1",
        "sp", "=", "=", "sp", "2">>
      [] w = "indent" -> <<"i", "n", "d", "e", "n", "t">>
      [] w = "import os" -> <<"i", "m", "p", "o", "r", "t", "sp", "o", "s">>

RECURSIVE Flatten(_)
Flatten(ws) ==
    IF ws = <<>> THEN <<>>
    ELSE IF Len(ws) = 1 THEN Chars(ws[1])
    ELSE Chars(ws[1]) \o <<"sp">> \o Flatten(Tail(ws))

(***************************************************************************)
(* docker_runner.py: _classify_bug, lines 312-328                          *)
(***************************************************************************)
\* line 318
Keywords_INDENTATION ==
    { <<"i", "n", "d", "e", "n", "t", "a", "t", "i", "o", "n", "e", "r", "r", "o", "r">>,
      <<"u", "n", "e", "x", "p", "e", "c", "t", "e", "d", "sp", "i", "n", "d", "e", "n", "t">>,
      <<"i", "n", "d", "e", "n", "t", "a", "t", "i", "o", "n">> }
\* line 320
Keywords_SYNTAX ==
    { <<"s", "y", "n", "t", "a", "x", "e", "r", "r", "o", "r">>,
      <<"i", "n", "v", "a", "l", "i", "d", "sp", "s", "y", "n", "t", "a", "x">>,
      <<"s", "y", "n", "t", "a", "x">> }
\* line 322
Keywords_IMPORT ==
    { <<"i", "m", "p", "o", "r", "t", "e", "r", "r", "o", "r">>,
      <<"m", "o", "d", "u", "l", "e", "n", "o", "t", "f", "o", "u", "n", "d", "e", "r", "r", "o", "r">>,
      <<"c", "a", "n", "n", "o", "t", "sp", "i", "m", "p", "o", "r", "t">> }
\* line 324
Keywords_TYPE_ERROR ==
    { <<"t", "y", "p", "e", "e", "r", "r", "o", "r">>,
      <<"t", "y", "p", "e", "sp", "e", "r", "r", "o", "r">>,
      <<"u", "n", "s", "u", "p", "p", "o", "r", "t", "e", "d", "sp", "o", "p", "e", "r", "a", "n", "d">> }
\* line 326
Keywords_LINTING ==
    { <<"f", "l", "a", "k", "e", "8">>,
      <<"p", "y", "l", "i", "n", "t">>,
      <<"p", "e", "p", "8">>,
      <<"l", "i", "n", "t">>,
      <<"u", "n", "u", "s", "e", "d", "sp", "i", "m", "p", "o", "r", "t">> }

HasKeyword(t, keywords) == \E needle \in keywords : Contains(t, needle)

\* the chain of lines 318-328 with the linting test moved to the front
classify_LintingFirst(t) ==
    IF HasKeyword(t, Keywords_LINTING) THEN "LINTING"
    ELSE IF HasKeyword(t, Keywords_INDENTATION) THEN "INDENTATION"
    ELSE IF HasKeyword(t, Keywords_SYNTAX) THEN "SYNTAX"
    ELSE IF HasKeyword(t, Keywords_IMPORT) THEN "IMPORT"
    ELSE IF HasKeyword(t, Keywords_TYPE_ERROR) THEN "TYPE_ERROR"
    ELSE "LOGIC"

\* lines 318-328 on the lower-cased text t
classify(t) ==
    IF HasKeyword(t, Keywords_INDENTATION) THEN "INDENTATION"
    ELSE IF HasKeyword(t, Keywords_SYNTAX) THEN "SYNTAX"
    ELSE IF HasKeyword(t, Keywords_IMPORT) THEN "IMPORT"
    ELSE IF HasKeyword(t, Keywords_TYPE_ERROR) THEN "TYPE_ERROR"
    ELSE IF HasKeyword(t, Keywords_LINTING) THEN "LINTING"
    ELSE "LOGIC"

\* lines 312-328: text and full_output are texts in characters
_classify_bug(text, full_output) ==
    classify(lower(text \o <<"sp">> \o full_output))


\* most words of a text handed to the classifier
MaxWords == 2

Texts(n) == UNION { [1..k -> ErrorWords] : k \in 0..n }

\* the rest of the output the caller hands over as full_output (line 291)
FullOutputs == { <<>>, <<"pylint">>, <<"IndentationError">> }

InitClassify ==
    /\ RunIdle
    /\ run = NoRun
    /\ worker = "none"
    /\ pollers = <<>>
    /\ \E text \in Texts(MaxWords), full_output \in FullOutputs :
          lastCall = [ fn |-> "request", text |-> text,
                       full_output |-> full_output, bug_type |-> None ]
    /\ futures = <<>>
    /\ ci_poll = NoPoll
    /\ LiveIdle

\* one call of _classify_bug
ClassifyBug ==
    /\ lastCall.fn = "request"
    /\ lastCall' = [ lastCall EXCEPT
                       !.fn = "_classify_bug",
                       !.bug_type = _classify_bug(Flatten(lastCall.text),
                                                  Flatten(lastCall.full_output)) ]
    /\ UNCHANGED << runVars, run, worker, pollers, futures, ci_poll,
                    liveVars >>

NextClassify == ClassifyBug

SpecClassify == InitClassify /\ [][NextClassify]_vars

(***************************************************************************)
(* docker_runner.py: _parse_failures, lines 181-309.  The output is a      *)
(* sequence of lines (output.splitlines()), each a text in characters.     *)
(***************************************************************************)
\* longest output drawn, in lines
MaxLines == 2

\* line 303: error_message[:100]
KeyPrefixLen == 100

Digits == <<"0", "1", "2", "3", "4", "5", "6", "7", "8", "9">>

IsDigit(c) == \E k \in 1..10 : Digits[k] = c

DigitVal(c) == (CHOOSE k \in 1..10 : Digits[k] = c) - 1

\* int(t) raises ValueError unless t is a run of digits
IsInt(t) == t # <<>> /\ \A k \in 1..Len(t) : IsDigit(t[k])

RECURSIVE int(_)
int(t) ==
    IF Len(t) = 1 THEN DigitVal(t[1])
    ELSE 10 * int(SubSeq(t, 1, Len(t) - 1)) + DigitVal(t[Len(t)])

\* t.find(needle, from): the first place at or after `from` where needle
\* stands, 0 when there is none
Find(t, needle, from) ==
    LET hits == { k \in from..(Len(t) - Len(needle) + 1) : MatchAt(t, needle,
                        k) }
    IN  IF hits = {} THEN 0 ELSE CHOOSE k \in hits : \A h \in hits : k <= h

\* the last place where needle stands, 0 when there is none
RFind(t, needle) ==
    LET hits == { k \in 1..(Len(t) - Len(needle) + 1) : MatchAt(t, needle,
                        k) }
    IN  IF hits = {} THEN 0 ELSE CHOOSE k \in hits : \A h \in hits : h <= k

\* what follows the first sep, up to the next sep: t.split(sep)[1]
SecondPiece(t, sep) ==
    LET first == Find(t, sep, 1)
        rest  == SubSeq(t, first + Len(sep), Len(t))
        next  == Find(rest, sep, 1)
    IN  IF next = 0 THEN rest ELSE SubSeq(rest, 1, next - 1)

\* t.split()[0]: the first run of characters that are no white space
FirstToken(t) ==
    LET body == LStrip(t)
        stop == { k \in 1..Len(body) : IsSpace(body[k]) }
    IN  IF stop = {} THEN body
        ELSE SubSeq(body, 1, (CHOOSE k \in stop : \A h \in stop : k <= h) - 1)

\* t.rstrip(c) and t.lstrip(c)
RECURSIVE RStripChar(_, _)
RStripChar(t, c) ==
    IF t # <<>> /\ t[Len(t)] = c THEN RStripChar(SubSeq(t, 1, Len(t) - 1),
                        c) ELSE t

RECURSIVE LStripChar(_, _)
LStripChar(t, c) == IF t # <<>> /\ Head(t) = c THEN LStripChar(Tail(t),
                    c) ELSE t

\* raw_path.replace("\\", "/")
ReplaceBackslash(t) == [ k \in 1..Len(t) |-> IF t[k] = "\\" THEN "/" ELSE t[k] ]

\* t.split("/")
RECURSIVE SplitSlash(_)
SplitSlash(t) ==
    LET cut == Find(t, <<"/">>, 1)
    IN  IF cut = 0 THEN << t >>
        ELSE << SubSeq(t, 1, cut - 1) >> \o SplitSlash(SubSeq(t, cut + 1,
                            Len(t)))

\* "/".join(parts)
RECURSIVE JoinSlash(_)
JoinSlash(parts) ==
    IF parts = <<>> THEN <<>>
    ELSE IF Len(parts) = 1 THEN parts[1]
    ELSE parts[1] \o <<"/">> \o JoinSlash(Tail(parts))

\* "\n".join(lines): an output that splits into the lines
RECURSIVE JoinLines(_)
JoinLines(lines) ==
    IF lines = <<>> THEN <<>>
    ELSE IF Len(lines) = 1 THEN lines[1]
    ELSE lines[1] \o <<"nl">> \o JoinLines(Tail(lines))

\* lines 224-230 and 267-273: the path relative to the checkout, when it runs
\* through cloned_repos/<run>/
RelativeToRepo(raw_path) ==
    LET unix  == ReplaceBackslash(raw_path)
        parts == SplitSlash(unix)
        at    == { k \in 1..Len(parts) : parts[k] = <<"c", "l", "o", "n", "e",
                            "d", "_", "r", "e", "p", "o", "s">> }
    IN  IF ~Contains(unix, <<"c", "l", "o", "n", "e", "d", "_", "r", "e", "p",
                        "o", "s">>) \/ at = {} THEN raw_path
        ELSE LET idx == CHOOSE k \in at : \A h \in at : k <= h
             IN  IF idx + 2 <= Len(parts)
                 THEN JoinSlash(SubSeq(parts, idx + 2, Len(parts)))
                 ELSE raw_path

\* line 216: the error names looked for in the lines after a traceback line
ErrorNames ==
    { <<"S", "y", "n", "t", "a", "x", "E", "r", "r", "o", "r">>, <<"I", "n",
                        "d", "e", "n", "t", "a", "t", "i", "o", "n", "E", "r",
                        "r", "o", "r">>, <<"N", "a", "m", "e", "E", "r", "r",
                        "o", "r">>, <<"T", "y", "p", "e", "E", "r", "r", "o",
                        "r">>,
      <<"A", "t", "t", "r", "i", "b", "u", "t", "e", "E", "r", "r", "o",
                          "r">>, <<"I", "m", "p", "o", "r", "t", "E", "r",
                          "r", "o", "r">>, <<"F", "i", "l", "e", "N", "o",
                          "t", "F", "o", "u", "n", "d", "E", "r", "r", "o",
                          "r">>,
      <<"M", "o", "d", "u", "l", "e", "N", "o", "t", "F", "o", "u", "n", "d",
                          "E", "r", "r", "o", "r">> }

\* lines 211-221: the first of the next three lines that names an error
ErrorAfter(lines, i) ==
    LET named == { j \in 1..3 : /\ i + j <= Len(lines)
                                /\ HasKeyword(Strip(lines[i + j]),
                                                    ErrorNames) }
    IN  IF named = {} THEN <<"E", "r", "r", "o", "r", "sp", "d", "e", "t",
                        "e", "c", "t", "e", "d", "sp", "i", "n", "sp", "t",
                        "h", "i", "s", "sp", "f", "i", "l", "e", "sp", "(",
                        "c", "h", "e", "c", "k", "sp", "t", "r", "a", "c",
                        "e", "b", "a", "c", "k", ")">>
        ELSE Strip(lines[i + (CHOOSE j \in named : \A h \in named : j <= h)])

FailureRecord(file, lineno, error_message, output) ==
    [ file          |-> file,
      line          |-> lineno,
      error_message |-> error_message,
      bug_type      |-> _classify_bug(error_message \o <<"sp">> \o output,
                          <<>>) ]

\* lines 198-242: a line of the shape `File "path.py", line N`
TracebackRecords(lines, i, output) ==
    LET line        == Strip(lines[i])
        path_start  == Find(line, <<"\"">>, 1) + 1
        path_end    == Find(line, <<"\"">>, path_start)
        raw_path    == SubSeq(line, path_start, path_end - 1)
        lineno_part == RStripChar(FirstToken(SecondPiece(line, <<"\"", ",",
                            "sp", "l", "i", "n", "e", "sp">>)), ",")
    IN  IF ~IsInt(lineno_part) THEN <<>>                     \* ValueError
        ELSE IF Contains(raw_path, <<"s", "i", "t", "e", "-", "p", "a", "c",
                            "k", "a", "g", "e", "s">>) \/ Contains(raw_path,
                            <<".", "v", "e", "n", "v">>)
        THEN <<>>
        ELSE << FailureRecord(RelativeToRepo(raw_path), int(lineno_part),
                              ErrorAfter(lines, i), output) >>

\* lines 246-282: a line of the shape `path.py:N: message`
InlineRecords(lines, i, output) ==
    LET line           == Strip(lines[i])
        cut            == Find(line, <<":", "sp">>, 1)
        file_line_part == Strip(LStripChar(Strip(SubSeq(line, 1, cut - 1)),
                            "E"))
        error_msg      == Strip(SubSeq(line, cut + 2, Len(line)))
        colon          == RFind(file_line_part, <<":">>)
        raw_path       == SubSeq(file_line_part, 1, colon - 1)
        lineno_part    == SubSeq(file_line_part, colon + 1,
                            Len(file_line_part))
    IN  IF \/ Contains(line, <<"s", "i", "t", "e", "-", "p", "a", "c", "k",
                        "a", "g", "e", "s">>)
           \/ Contains(line, <<".", "v", "e", "n", "v">>)
           \/ Contains(line, <<"A", "p", "p", "D", "a", "t", "a">>)
        THEN <<>>
        ELSE IF colon = 0 THEN <<>>
        ELSE << FailureRecord(RelativeToRepo(raw_path),
                              IF IsInt(lineno_part) THEN int(lineno_part)
                              ELSE 0,
                              error_msg, output) >>

\* lines 193-284: the records of the lines from i on, in the lines' order
RECURSIVE SpecificRecords(_, _, _)
SpecificRecords(lines, i, output) ==
    IF i > Len(lines) THEN <<>>
    ELSE LET line == Strip(lines[i])
             here == IF Contains(line, <<"F", "i", "l", "e", "sp",
                                 "\"">>) /\ Contains(line, <<".", "p", "y",
                                 "\"", ",", "sp", "l", "i", "n", "e", "sp">>)
                     THEN TracebackRecords(lines, i, output)
                     ELSE IF Contains(line, <<".", "p", "y",
                                         ":">>) /\ Contains(line, <<":",
                                         "sp">>)
                     THEN InlineRecords(lines, i, output)
                     ELSE <<>>
         IN  here \o SpecificRecords(lines, i + 1, output)

\* lines 287-297: the lines that report a failed or broken test
RECURSIVE FallbackRecords(_, _, _, _)
FallbackRecords(lines, i, test_file, output) ==
    IF i > Len(lines) THEN <<>>
    ELSE LET line == lines[i]
             here == IF \/ Contains(line, <<":", ":", "E", "R", "R", "O",
                                 "R">>)
                        \/ Contains(line, <<"F", "A", "I", "L", "E",
                                            "D">>) /\ Contains(line, <<":",
                                            ":">>)
                     THEN << [ file          |-> test_file,
                               line          |-> 0,
                               error_message |-> Strip(line),
                               bug_type      |-> _classify_bug(Strip(line),
                                                   output) ] >>
                     ELSE <<>>
         IN  here \o FallbackRecords(lines, i + 1, test_file, output)

\* line 303
Take(t, n) == SubSeq(t, 1, IF Len(t) < n THEN Len(t) ELSE n)

\* the key of line 303 with the whole message
DedupKey_WholeMessage(f) == << f.file, f.line, f.error_message >>

\* line 303
DedupKey(f) == << f.file, f.line, Take(f.error_message, KeyPrefixLen) >>

\* lines 300-306: the records whose key no earlier record has
RECURSIVE Deduplicate(_, _)
Deduplicate(failures, seen) ==
    IF failures = <<>> THEN <<>>
    ELSE LET f == Head(failures)
         IN  IF DedupKey(f) \in seen THEN Deduplicate(Tail(failures), seen)
             ELSE << f >> \o Deduplicate(Tail(failures),
                                 seen \cup {DedupKey(f)})

\* output.splitlines()
RECURSIVE splitlines(_)
splitlines(t) ==
    IF t = <<>> THEN <<>>
    ELSE LET cut == Find(t, <<"nl">>, 1)
         IN  IF cut = 0 THEN << t >>
             ELSE << SubSeq(t, 1, cut - 1) >> \o splitlines(SubSeq(t, cut + 1,
                                 Len(t)))

\* lines 186-297: the list `failures` before the deduplication
ParsedFailures(output, test_file) ==
    LET lines    == splitlines(output)
        specific == SpecificRecords(lines, 1, output)
    IN  IF specific # <<>> THEN specific
        ELSE FallbackRecords(lines, 1, test_file, output)

\* lines 181-309
_parse_failures(output, test_file) ==
    Deduplicate(ParsedFailures(output, test_file), {})

(***************************************************************************)
(* The outputs the parser is called with                                   *)
(***************************************************************************)
PathCalc   == <<"s", "r", "c", "/", "c", "a", "l", "c", ".", "p", "y">>
PathCloned == <<"c", "l", "o", "n", "e", "d", "_", "r", "e", "p", "o", "s",
                    "/", "r", "1", "_", "r", "e", "p", "o", "/", "s", "r",
                    "c", "/", "c", "a", "l", "c", ".", "p", "y">>
PathVendor == <<"l", "i", "b", "/", "s", "i", "t", "e", "-", "p", "a", "c",
                    "k", "a", "g", "e", "s", "/", "s", "i", "x", ".", "p",
                    "y">>
PathAppData == <<"C", ":", "\\", "U", "s", "e", "r", "s", "\\", "d", "e", "v",
                    "\\", "A", "p", "p", "D", "a", "t", "a", "\\", "L", "o",
                    "c", "a", "l", "\\", "l", "i", "b", ".", "p", "y">>
PathTest   == <<"t", "e", "s", "t", "s", "/", "t", "e", "s", "t", "_", "c",
                    "a", "l", "c", ".", "p", "y">>

InlineLine(path, lineno, msg) == path \o <<":">> \o lineno \o <<":",
                    "sp">> \o msg

TracebackLine(path, lineno) ==
    <<"F", "i", "l", "e", "sp", "\"">> \o path \o <<"\"", ",", "sp", "l", "i",
                        "n", "e", "sp">> \o lineno \o <<",", "sp", "i", "n",
                        "sp", "f">>

FailedLine(test, msg) == <<"F", "A", "I", "L", "E", "D",
                    "sp">> \o test \o <<":", ":", "t", "e", "s", "t", "_",
                    "a", "d", "d", "sp", "-", "sp">> \o msg

\* the lines an output drawn is made of
ParserLines ==
    { InlineLine(PathCalc, <<"1", "0">>, <<"T", "y", "p", "e", "E", "r", "r",
                        "o", "r">>),
      InlineLine(PathCalc, <<"1", "0">>, <<"T", "y", "p", "e", "E", "r", "r",
                          "o", "r">>) \o <<"sp">>,
      InlineLine(PathCloned, <<"1", "0">>, <<"T", "y", "p", "e", "E", "r",
                          "r", "o", "r">>),
      InlineLine(PathCalc, <<"1", "1">>, <<"T", "y", "p", "e", "E", "r", "r",
                          "o", "r">>),
      InlineLine(PathCalc, <<"1", "0">>, Flatten(<<"x99", "a">>)),
      InlineLine(PathCalc, <<"1", "0">>, Flatten(<<"x99", "b">>)),
      InlineLine(PathCalc, <<"1", "0">>, Flatten(<<"x98", "b">>)),
      InlineLine(PathVendor, <<"1", "0">>, <<"T", "y", "p", "e", "E", "r",
                          "r", "o", "r">>),
      <<"sp">> \o TracebackLine(PathCalc, <<"1", "0">>),
      TracebackLine(PathVendor, <<"1", "0">>),
      TracebackLine(PathAppData, <<"1", "0">>),
      InlineLine(PathAppData, <<"1", "0">>, <<"T", "y", "p", "e", "E", "r",
                          "r", "o", "r">>),
      FailedLine(PathTest, <<"a", "s", "s", "e", "r", "t", "sp", "1", "sp",
                          "=", "=", "sp", "2">>),
      FailedLine(PathTest, <<"a", "s", "s", "e", "r", "t", "sp", "1", "sp",
                          "=", "=", "sp", "2">>) \o <<"sp", "sp">>,
      <<"1", "sp", "f", "a", "i", "l", "e", "d", "sp", "i", "n", "sp", "0",
                          ".", "1", "2", "s">> }

Outputs(n) == UNION { [1..k -> ParserLines] : k \in 0..n }

InitParse ==
    /\ RunIdle
    /\ run = NoRun
    /\ worker = "none"
    /\ pollers = <<>>
    /\ \E lines \in Outputs(MaxLines) :
          lastCall = [ fn |-> "request", lines |-> lines,
                              test_file |-> PathTest,
                       found |-> <<>>, failures |-> <<>> ]
    /\ futures = <<>>
    /\ ci_poll = NoPoll
    /\ LiveIdle

\* one call of _parse_failures; found is the list the deduplication started
\* from
ParseFailures ==
    /\ lastCall.fn = "request"
    /\ lastCall' = [ lastCall EXCEPT
                       !.fn = "_parse_failures",
                       !.found = ParsedFailures(JoinLines(lastCall.lines),
                                                lastCall.test_file),
                       !.failures = _parse_failures(JoinLines(lastCall.lines),
                                                    lastCall.test_file) ]
    /\ UNCHANGED << runVars, run, worker, pollers, futures, ci_poll,
                    liveVars >>

NextParse == ParseFailures

SpecParse == InitParse /\ [][NextParse]_vars

(***************************************************************************)
(* docker_runner.py: run_tests and _execute_and_parse, lines 30-178, and   *)
(* the parallel test execution of one pass, agents.py lines 115-131.  Every *)
(* test file is one task of the pool; a task runs one process, and the     *)
(* pass collects the results in the order the tasks finish.                *)
(***************************************************************************)
MAX_WORKERS == 4

PathWeb == <<"w", "e", "b", "/", "a", "p", "p", ".", "t", "e", "s", "t", ".",
                    "j", "s">>

\* the test files of the pass
ExecUnits == { PathTest, PathWeb }

\* what a process writes before it ends
StdOuts ==
    { <<>>,
      <<"1", "sp", "f", "a", "i", "l", "e", "d", "sp", "i", "n", "sp", "0",
                          ".", "1", "2", "s">> \o <<"nl">>,
      InlineLine(PathCalc, <<"1", "0">>, <<"T", "y", "p", "e", "E", "r", "r",
                          "o", "r", ":", "sp", "b", "a", "d", "sp", "o", "p",
                          "e", "r", "a", "n", "d">>) \o <<"nl">>,
      FailedLine(PathTest, <<"b", "o", "o", "m">>) \o <<"nl">> }
StdErrs == { <<>>, <<"s", "h", ":", "sp", "1", ":", "sp", "p", "y", "t", "e",
                    "s", "t", ":", "sp", "n", "o", "t", "sp", "f", "o", "u",
                    "n", "d">> \o <<"nl">> }
ReturnCodes == { 0, 1 }
\* str(exc) of an exception subprocess.run raises
ExcTexts == { <<"[", "E", "r", "r", "n", "o", "sp", "2", "]", "sp", "N", "o",
                    "sp", "s", "u", "c", "h", "sp", "f", "i", "l", "e", "sp",
                    "o", "r", "sp", "d", "i", "r", "e", "c", "t", "o", "r",
                    "y">> }

\* the ways subprocess.run ends (lines 120-127)
ProcOutcomes ==
    [ kind : {"exit"}, returncode : ReturnCodes, stdout : StdOuts,
      stderr : StdErrs, exc : {<<>>} ]
    \cup [ kind : {"timeout"}, returncode : {0}, stdout : {<<>>},
           stderr : {<<>>}, exc : {<<>>} ]
    \cup [ kind : {"error"}, returncode : {0}, stdout : {<<>>},
           stderr : {<<>>}, exc : ExcTexts ]

\* str(n) of a return code
RECURSIVE str(_)
str(n) == IF n < 10 THEN << Digits[n + 1] >>
          ELSE str(n \div 10) \o << Digits[(n % 10) + 1] >>

TestResult(test_file, passed, stdout, stderr, failures) ==
    [ test_file |-> test_file, passed |-> passed, stdout |-> stdout,
      stderr |-> stderr, failures |-> failures ]

\* line 136: the command failed and no failure was parsed
NeedsGeneric_Never(passed, failures) == FALSE
NeedsGeneric(passed, failures) == ~passed /\ failures = <<>>

\* lines 137-142
GenericFailure(test_file, returncode, combined) ==
    [ file          |-> test_file,
      line          |-> 0,
      error_message |-> <<"T", "e", "s", "t", "sp", "r", "u", "n", "n", "e",
                          "r", "sp", "e", "x", "e", "c", "u", "t", "i", "o",
                          "n", "sp", "f", "a", "i", "l", "e", "d", "sp", "(",
                          "r", "e", "t", "u", "r", "n", "sp", "c", "o", "d",
                          "e", "sp">>
                          \o str(returncode) \o <<")", ".", "nl">>
                          \o Strip(combined),
      bug_type      |-> "LOGIC" ]

\* lines 158-163
TimeoutFailure_FullStop(test_file) ==
    [ file |-> test_file, line |-> 0, error_message |-> <<"T", "i", "m", "e",
                        "o", "u", "t", ".">>,
      bug_type |-> "LOGIC" ]
TimeoutFailure(test_file) ==
    [ file |-> test_file, line |-> 0, error_message |-> <<"T", "i", "m", "e",
                        "o", "u", "t">>,
      bug_type |-> "LOGIC" ]

\* lines 171-176
ErrorFailure(test_file, exc) ==
    [ file |-> test_file, line |-> 0, error_message |-> exc,
      bug_type |-> "LOGIC" ]

\* lines 108-178
_execute_and_parse(test_file, proc) ==
    IF proc.kind = "timeout"
    THEN TestResult(test_file, FALSE, <<>>,
                    <<"T", "e", "s", "t", "sp", "r", "u", "n", "sp", "t", "i",
                                        "m", "e", "d", "sp", "o", "u", "t",
                                        "sp", "a", "f", "t", "e", "r", "sp",
                                        "3", "0", "0", "sp", "s", "e", "c",
                                        "o", "n", "d", "s", ".">>,
                    << TimeoutFailure(test_file) >>)
    ELSE IF proc.kind = "error"
    THEN TestResult(test_file, FALSE, <<>>, proc.exc,
                    << ErrorFailure(test_file, proc.exc) >>)
    ELSE LET combined == proc.stdout \o <<"nl">> \o proc.stderr
             passed   == proc.returncode = 0
             failures == _parse_failures(combined, test_file)
         IN  TestResult(test_file, passed, proc.stdout, proc.stderr,
                        IF NeedsGeneric(passed, failures)
                        THEN << GenericFailure(test_file, proc.returncode,
                                               combined) >>
                        ELSE failures)

\* Path(test_file).suffix, for a file name that holds a dot
Ext(test_file) ==
    LET dot == RFind(test_file, <<".">>)
    IN  IF dot = 0 THEN <<>> ELSE SubSeq(test_file, dot, Len(test_file))

SupportedExts == { <<".", "p", "y">>, <<".", "j", "s">>, <<".", "t", "s">>,
                    <<".", "j", "s", "x">>, <<".", "t", "s", "x">> }

\* lines 84-101; the local fall-back refuses a file of another kind
_run_locally(test_file, proc) ==
    IF Ext(test_file) \in SupportedExts
    THEN _execute_and_parse(test_file, proc)
    ELSE TestResult(test_file, FALSE, <<>>,
                    <<"U", "n", "s", "u", "p", "p", "o", "r", "t", "e", "d",
                                        "sp", "t", "e", "s", "t", "sp", "f",
                                        "i", "l", "e", "sp", "e", "x", "t",
                                        "e", "n", "s", "i", "o", "n", ":",
                                        "sp">> \o Ext(test_file), <<>>)

\* lines 30-39; in the container every file is run
run_tests(docker, test_file, proc) ==
    IF docker THEN _execute_and_parse(test_file, proc)
    ELSE _run_locally(test_file, proc)

\* the variables of the run a pass of tests leaves alone
execIdleVars == << pc, github_pat, repo, checkout, files, test_files, gen_log,
                   phase, message, iteration, fix_i,
                   fixed_files, all_fixes, push_success,
                   commit_count, ci_timeline, final_status,
                   disk, lastFix, pending, raised_in,
                   outcome, result, artifact, branch_calls,
                   writes_before_branch, nExec, nFixCalls,
                   nCommit, nPoll, cleanup_calls,
                   cleanup_result >>

NoTestResult == TestResult(<<>>, FALSE, <<>>, <<>>, <<>>)
NoProc == [ kind |-> "none", returncode |-> 0, stdout |-> <<>>,
            stderr |-> <<>>, exc |-> <<>> ]

\* the tasks of the pool that run
Running == { tf \in DOMAIN futures : futures[tf].state = "running" }

InitExec ==
    /\ pc = "execute"
    /\ github_pat = FALSE
    /\ repo = None
    /\ checkout = "absent"
    /\ files = {}
    /\ test_files = ExecUnits
    /\ gen_log = {}
    /\ phase = "queued"
    /\ message = <<"Queued">>
    /\ iteration = 0
    /\ all_failures = <<>>
    /\ fix_i = 0
    /\ fixed_files = <<>>
    /\ all_fixes = <<>>
    /\ push_success = FALSE
    /\ commit_count = 0
    /\ ci_timeline = <<>>
    /\ final_status = "unset"
    /\ disk = [f \in ExistingFiles |-> <<"a", "nl">>]
    /\ lastFix = NoFix
    /\ pending = "none"
    /\ raised_in = "none"
    /\ outcome = "none"
    /\ result = NoResult
    /\ artifact = "none"
    /\ branch_calls = 0
    /\ writes_before_branch = 0
    /\ nExec = 0
    /\ nFixCalls = 0
    /\ nCommit = 0
    /\ nPoll = 0
    /\ cleanup_calls = 0
    /\ cleanup_result = "none"
    /\ run = NoRun
    /\ worker = "none"
    /\ pollers = <<>>
    /\ lastCall = NoCall
    /\ futures = [ tf \in ExecUnits |->
                     [ state |-> "submitted", proc |-> NoProc,
                       result |-> NoTestResult ] ]
    /\ ci_poll = NoPoll
    /\ LiveIdle

\* line 117: ThreadPoolExecutor(max_workers=MAX_WORKERS)
PoolHasRoom_Always(running) == TRUE
PoolHasRoom(running) == Cardinality(running) < MAX_WORKERS

\* a worker of the pool takes a task
TaskStart(tf) ==
    /\ futures[tf].state = "submitted"
    /\ PoolHasRoom(Running)
    /\ futures' = [ futures EXCEPT ![tf].state = "running" ]
    /\ UNCHANGED << execIdleVars, all_failures, run, worker, pollers,
                        lastCall,
                    ci_poll,
                    liveVars >>

\* run_tests returns (line 119); proc is how its process ended
TaskDoneWith(tf, procs) ==
    /\ futures[tf].state = "running"
    /\ \E docker \in BOOLEAN, proc \in procs :
          futures' = [ futures EXCEPT
                         ![tf] = [ state  |-> "done",
                                   proc   |-> proc,
                                   result |-> run_tests(docker, tf, proc) ] ]
    /\ UNCHANGED << execIdleVars, all_failures, run, worker, pollers,
                        lastCall,
                    ci_poll,
                    liveVars >>

TaskDone(tf) == TaskDoneWith(tf, ProcOutcomes)

\* lines 122-131: the pass takes the result of a task that finished
Collect(tf) ==
    /\ futures[tf].state = "done"
    /\ futures' = [ futures EXCEPT ![tf].state = "collected" ]
    /\ all_failures' = IF ~futures[tf].result.passed
                       THEN all_failures \o futures[tf].result.failures
                       ELSE all_failures
    /\ UNCHANGED << execIdleVars, run, worker, pollers, lastCall, ci_poll,
                    liveVars >>

NextExec ==
    \E tf \in DOMAIN futures : TaskStart(tf) \/ TaskDone(tf) \/ Collect(tf)

SpecExec == InitExec /\ [][NextExec]_vars

(***************************************************************************)
(* agents.py: one pass of the heal loop from the submission of its test    *)
(* files to the end of its fix loop, lines 115-164.  Five test files wait  *)
(* for the four workers of the pool; a test file passes or runs out of     *)
(* time.                                                                   *)
(***************************************************************************)
\* _discover_tests, lines 238-248: the test files in the order found
PassUnits == << PathTest, <<"t", "e", "s", "t", "s", "/", "t", "e", "s", "t",
                    "_", "i", "o", ".", "p", "y">>, <<"t", "e", "s", "t", "s",
                    "/", "t", "e", "s", "t", "_", "n", "e", "t", ".", "p",
                    "y">>, PathWeb,
                <<"w", "e", "b", "/", "u", "i", ".", "t", "e", "s", "t", ".",
                                    "t", "s">> >>

PassOutcomes ==
    { proc \in ProcOutcomes :
        \/ proc.kind = "timeout"
        \/ /\ proc.kind = "exit" /\ proc.returncode = 0
           /\ proc.stdout = <<>> /\ proc.stderr = <<>> }

InitPass ==
    /\ pc = "execute"
    /\ github_pat = FALSE
    /\ repo = "Repo"
    /\ checkout = "present"
    /\ files = {}
    /\ test_files = { PassUnits[k] : k \in 1..Len(PassUnits) }
    /\ gen_log = {}
    /\ phase = "execution"
    /\ message = <<"Queued">>
    /\ iteration = 1
    /\ all_failures = <<>>
    /\ fix_i = 0
    /\ fixed_files = <<>>
    /\ all_fixes = <<>>
    /\ push_success = FALSE
    /\ commit_count = 0
    /\ ci_timeline = <<>>
    /\ final_status = "unset"
    /\ disk = [f \in ExistingFiles |-> <<"a", "nl">>]
    /\ lastFix = NoFix
    /\ pending = "none"
    /\ raised_in = "none"
    /\ outcome = "none"
    /\ result = NoResult
    /\ artifact = "none"
    /\ branch_calls = 1
    /\ writes_before_branch = 0
    /\ nExec = 1
    /\ nFixCalls = 0
    /\ nCommit = 0
    /\ nPoll = 0
    /\ cleanup_calls = 0
    /\ cleanup_result = "none"
    /\ run = NoRun
    /\ worker = "none"
    /\ pollers = <<>>
    /\ lastCall = NoCall
    /\ futures = [ tf \in test_files |->
                     [ state |-> "submitted", proc |-> NoProc,
                       result |-> NoTestResult ] ]
    /\ ci_poll = NoPoll
    /\ LiveIdle

\* the with block of line 117 is left when every task was collected
Joined == \A tf \in DOMAIN futures : futures[tf].state = "collected"

\* line 131: the with block is left
Join ==
    /\ pc = "execute"
    /\ Joined
    /\ pc' = "diagnose"
    /\ UNCHANGED << github_pat, repo, checkout, files, test_files, gen_log,
                    phase, message, iteration, all_failures, fix_i,
                    fixed_files, all_fixes, push_success, commit_count,
                    ci_timeline, final_status, disk, lastFix, pending,
                    raised_in, outcome, result, artifact, branch_calls,
                    writes_before_branch, nExec, nFixCalls, nCommit, nPoll,
                    cleanup_calls, cleanup_result, sideVars >>

\* the tasks of the pass, up to the join
PassStart == \E tf \in DOMAIN futures : pc = "execute" /\ TaskStart(tf)
PassDone ==
    \E tf \in DOMAIN futures : pc = "execute" /\ TaskDoneWith(tf, PassOutcomes)
PassCollect == \E tf \in DOMAIN futures : pc = "execute" /\ Collect(tf)

NextPass ==
    PassStart \/ PassDone \/ PassCollect \/ Join \/ Diagnose \/ ApplyFix

SpecPass == InitPass /\ [][NextPass]_vars

(***************************************************************************)
(* agents.py: the first pass of a run whose test files were written by     *)
(* _generate_tests, lines 295-308: test_<stem>.py for a Python candidate,  *)
(* <stem>.test<suffix> for any other, the suffix as the candidate spells   *)
(* it.  The candidates are src/calc.py, web/App.JS and web/ui.ts.          *)
(***************************************************************************)
GeneratedUnits ==
    { <<"t", "e", "s", "t", "_", "c", "a", "l", "c", ".", "p", "y">>,
      <<"A", "p", "p", ".", "t", "e", "s", "t", ".", "J", "S">>,
      <<"u", "i", ".", "t", "e", "s", "t", ".", "t", "s">> }

InitGenerated ==
    /\ pc = "execute"
    /\ github_pat = FALSE
    /\ repo = "Repo"
    /\ checkout = "present"
    /\ files = {}
    /\ test_files = GeneratedUnits
    /\ gen_log = {}
    /\ phase = "execution"
    /\ message = <<"Queued">>
    /\ iteration = 1
    /\ all_failures = <<>>
    /\ fix_i = 0
    /\ fixed_files = <<>>
    /\ all_fixes = <<>>
    /\ push_success = FALSE
    /\ commit_count = 0
    /\ ci_timeline = <<>>
    /\ final_status = "unset"
    /\ disk = [f \in ExistingFiles |-> <<"a", "nl">>]
    /\ lastFix = NoFix
    /\ pending = "none"
    /\ raised_in = "none"
    /\ outcome = "none"
    /\ result = NoResult
    /\ artifact = "none"
    /\ branch_calls = 1
    /\ writes_before_branch = 0
    /\ nExec = 1
    /\ nFixCalls = 0
    /\ nCommit = 0
    /\ nPoll = 0
    /\ cleanup_calls = 0
    /\ cleanup_result = "none"
    /\ run = NoRun
    /\ worker = "none"
    /\ pollers = <<>>
    /\ lastCall = NoCall
    /\ futures = [ tf \in test_files |->
                     [ state |-> "submitted", proc |-> NoProc,
                       result |-> NoTestResult ] ]
    /\ ci_poll = NoPoll
    /\ LiveIdle

SpecGenerated == InitGenerated /\ [][NextPass]_vars

(***************************************************************************)
(* agents.py: _poll_github_ci, lines 386-428.  Every query of the check    *)
(* runs is one step; the service answers it as it likes.                   *)
(***************************************************************************)
max_polls == 10
MaxRuns == 2

RepoUrls == { <<"h", "t", "t", "p", "s", ":", "/", "/", "g", "i", "t", "h",
                    "u", "b", ".", "c", "o", "m", "/", "o", "/", "r", ".",
                    "g", "i", "t">>, <<"g", "i", "t", "@", "g", "i", "t", "h",
                    "u", "b", ".", "c", "o", "m", ":", "o", "/", "r">>,
              <<"h", "t", "t", "p", "s", ":", "/", "/", "g", "i", "t", "l",
                                  "a", "b", ".", "c", "o", "m", "/", "o", "/",
                                  "r">>, <<"h", "t", "t", "p", "s", ":", "/",
                                  "/", "g", "i", "t", "h", "u", "b", ".", "c",
                                  "o", "m", "/", "o">> }

\* line 393: re.search(r"github\.com[:/](.+?)/(.+?)(?:\.git)?$", repo_url)
UrlMatches(repo_url) ==
    \E k \in 1..Len(repo_url) :
        /\ MatchAt(repo_url, <<"g", "i", "t", "h", "u", "b", ".", "c", "o",
                            "m">>, k)
        /\ k + 10 <= Len(repo_url)
        /\ repo_url[k + 10] \in {":", "/"}
        /\ \E j \in (k + 12)..(Len(repo_url) - 1) : repo_url[j] = "/"

\* the conclusion of a check run; "none" is a run with no conclusion yet
Conclusions == {"none", "success", "failure", "neutral"}

\* the answers to a query: a status code with the conclusions of the check
\* runs listed, or requests.get raising
Responses ==
    [ kind : {"response"}, status_code : {200},
      check_runs : UNION { [1..n -> Conclusions] : n \in 0..MaxRuns } ]
    \cup [ kind : {"response"}, status_code : {401, 403, 404, 500},
           check_runs : {<<>>} ]
    \cup [ kind : {"raise"}, status_code : {0}, check_runs : {<<>>} ]

NoResponse == [ kind |-> "none", status_code |-> 0, check_runs |-> <<>> ]

IsReported(c) == c # "none"

\* line 411: the conclusions that are set
Statuses_Unfiltered(check_runs) == check_runs
Statuses(check_runs) == SelectSeq(check_runs, IsReported)

\* lines 403-424: what one answer makes of the loop
PollDecision(resp) ==
    IF resp.kind = "raise" THEN "break"
    ELSE IF resp.status_code = 200
    THEN IF resp.check_runs = <<>> THEN "continue"
         ELSE LET statuses == Statuses(resp.check_runs)
              IN  IF \E k \in 1..Len(statuses) : statuses[k] = "failure"
                  THEN "failure"
                  ELSE IF /\ \A k \in 1..Len(statuses) : statuses[k] = "success"
                          /\ statuses # <<>>
                  THEN "success"
                  ELSE "continue"
    ELSE IF resp.status_code \in {401, 403} THEN "auth_error"
    ELSE "break"

\* lines 402, 421, 424 and 426: the loop is left without a verdict
LoopEnds_BreakOnly(decision, polls) == decision = "break"
LoopEnds(decision, polls) == decision = "break" \/ polls = max_polls

InitCI ==
    /\ RunIdle
    /\ run = NoRun
    /\ worker = "none"
    /\ pollers = <<>>
    /\ lastCall = NoCall
    /\ futures = <<>>
    /\ LiveIdle
    /\ \E repo_url \in RepoUrls :
          ci_poll = [ at |-> "called", repo_url |-> repo_url, polls |-> 0,
                      resp |-> NoResponse, returned |-> "none" ]

\* lines 392-400
PollEnter ==
    /\ ci_poll.at = "called"
    /\ ci_poll' = IF UrlMatches(ci_poll.repo_url)
                  THEN [ ci_poll EXCEPT !.at = "loop" ]
                  ELSE [ ci_poll EXCEPT !.at = "returned",
                                        !.returned = "unknown" ]
    /\ UNCHANGED << runVars, run, worker, pollers, lastCall, futures, liveVars >>

\* lines 402-426: one turn of the loop, and the return that follows the last
PollQuery ==
    /\ ci_poll.at = "loop"
    /\ ci_poll.polls < max_polls
    /\ \E resp \in Responses :
          LET decision == PollDecision(resp)
              polls    == ci_poll.polls + 1
          IN  ci_poll' =
                IF decision \in {"failure", "success", "auth_error"}
                THEN [ ci_poll EXCEPT !.at = "returned", !.polls = polls,
                                      !.resp = resp, !.returned = decision ]
                ELSE IF LoopEnds(decision, polls)
                THEN [ ci_poll EXCEPT !.at = "returned", !.polls = polls,
                                      !.resp = resp, !.returned = "pending" ]
                ELSE [ ci_poll EXCEPT !.polls = polls, !.resp = resp ]
    /\ UNCHANGED << runVars, run, worker, pollers, lastCall, futures, liveVars >>

NextCI == PollEnter \/ PollQuery

SpecCI == InitCI /\ [][NextCI]_vars

\* the call runs on: every requests.get returns or raises within its timeout
\* of 10 seconds (line 404), and every sleep ends
SpecCILive == InitCI /\ [][NextCI]_vars /\ WF_vars(NextCI)

(***************************************************************************)
(* results_generator.py: the score breakdown of generate_results, lines    *)
(* 31-51.  The duration is counted in whole seconds, so total_minutes < 5  *)
(* is total_seconds < 5 * 60.                                              *)
(***************************************************************************)
MaxCommits == 80

\* end_time - start_time, in seconds
Durations == { 0, 1, 299, 300, 301, 3600 }

NoScore == [ base |-> 0, time_bonus |-> 0, commit_penalty |-> 0, total |-> 0 ]

InitScore ==
    /\ RunIdle
    /\ run = NoRun
    /\ worker = "none"
    /\ pollers = <<>>
    /\ \E total_seconds \in Durations, commits \in 0..MaxCommits :
          lastCall = [ fn |-> "request", total_seconds |-> total_seconds,
                       commit_count |-> commits, score_breakdown |-> NoScore ]
    /\ futures = <<>>
    /\ ci_poll = NoPoll
    /\ LiveIdle

\* one call of generate_results
Score ==
    /\ lastCall.fn = "request"
    /\ lastCall' = [ lastCall EXCEPT
                       !.fn = "generate_results",
                       !.score_breakdown =
                           score_breakdown(lastCall.total_seconds,
                                           lastCall.commit_count) ]
    /\ UNCHANGED << runVars, run, worker, pollers, futures, ci_poll,
                    liveVars >>

NextScore == Score

SpecScore == InitScore /\ [][NextScore]_vars

(***************************************************************************)
(* agents.py: update_live, lines 61-65, and its calls in run_pipeline,     *)
(* while main.py's get_results reads the live record.  The worker runs     *)
(* run_pipeline on its own thread, so a poller may read the live record    *)
(* between any two statements of the worker.  Each statement of            *)
(* update_live is one step; the collaborators answer as they like.         *)
(***************************************************************************)
\* most failures one pass reports while the live record is watched
MaxLiveFailures == 1

\* most passes of one run in which every worker raised
MaxSilentPasses == 1

LivePollers == {"p1"}
\* a poller holds the last response it got
NoObservation == [phase |-> "none"]

\* the calls of update_live in run_pipeline: line, phase, message text, and
\* whether a text for the terminal is passed
LiveSites ==
    { [line |-> "line_71",  phase |-> "discovery",  text |-> "Cloning repository", terminal |-> FALSE],
      [line |-> "line_76",  phase |-> "discovery",  text |-> "Cloned repo", terminal |-> FALSE],
      [line |-> "line_80",  phase |-> "discovery",  text |-> "Found test file(s)", terminal |-> FALSE],
      [line |-> "line_83",  phase |-> "generation", text |-> "No tests found", terminal |-> FALSE],
      [line |-> "line_87",  phase |-> "generation", text |-> "Generated test suite(s)", terminal |-> FALSE],
      [line |-> "line_89",  phase |-> "done",       text |-> "No test files found and generation failed", terminal |-> FALSE],
      [line |-> "line_98",  phase |-> "branching",  text |-> "Creating branch", terminal |-> FALSE],
      [line |-> "line_108", phase |-> "execution",  text |-> "running test file(s) in parallel", terminal |-> FALSE],
      [line |-> "line_112", phase |-> None,         text |-> None, terminal |-> TRUE],
      [line |-> "line_135", phase |-> None,         text |-> None, terminal |-> TRUE],
      [line |-> "line_149", phase |-> "done",       text |-> "All tests passing", terminal |-> FALSE],
      [line |-> "line_153", phase |-> "fixing",     text |-> "Found failure(s)", terminal |-> FALSE],
      [line |-> "line_158", phase |-> "fixing",     text |-> "Applying LLM fix", terminal |-> FALSE],
      [line |-> "line_171", phase |-> "committing", text |-> "Pushing fixed file(s)", terminal |-> FALSE],
      [line |-> "line_174", phase |-> "committing", text |-> "Committed and Pushed", terminal |-> FALSE],
      [line |-> "line_182", phase |-> "committing", text |-> "Push failed", terminal |-> FALSE],
      [line |-> "line_186", phase |-> "ci_poll",    text |-> "Waiting for GitHub Actions CI", terminal |-> FALSE],
      [line |-> "line_188", phase |-> "ci_poll",    text |-> "GitHub CI Status", terminal |-> FALSE],
      [line |-> "line_190", phase |-> "ci_poll",    text |-> "Skipping CI poll", terminal |-> FALSE],
      [line |-> "line_193", phase |-> "done",       text |-> "Max retries reached", terminal |-> FALSE] }

SiteAt(line) == CHOOSE s \in LiveSites : s.line = line

\* the message of a call: its text with the numbers the f-string puts in
LiveMessage(site) ==
    IF site.text = None THEN None
    ELSE IF site.line \in {"line_108", "line_149"} THEN << site.text, iteration >>
    ELSE IF site.line = "line_158" THEN << site.text, fix_i >>
    ELSE << site.text >>

\* the text a call appends to the terminal: line 112 or line 135
LiveTerminal(site) ==
    IF ~site.terminal THEN None
    ELSE IF site.line = "line_112" THEN << ">>> Running tests" >>
    ELSE << "--- OUTPUT ---" >>

\* line 64 as an assignment
AppendTerminal_Overwrite(buffer, text) == text

\* line 64: live["terminal_output"] += append_terminal
AppendTerminal(buffer, text) == buffer \o text

\* line 192, and line 106 when the pass was not the last
AtLine192(iter) == IF iter = MAX_RETRIES THEN "line_193" ELSE "line_106"

\* lines 185 and 189
AtLine185(pat, pushed, iter) ==
    IF pat /\ pushed THEN "line_186"
    ELSE IF pat THEN "line_190"
    ELSE AtLine192(iter)

\* line 156: the fix loop goes to its next failure or ends (line 167)
AtLine156(i, fails) == IF i <= Len(fails) THEN "line_158" ELSE "line_167"

\* the statement run_pipeline is at when a call of update_live has returned
AfterCall(line) ==
    CASE line = "line_71"  -> "line_72"
      [] line = "line_76"  -> "line_79"
      [] line = "line_80"  -> IF test_files = {} THEN "line_83" ELSE "line_98"
      [] line = "line_83"  -> "line_84"
      [] line = "line_87"  -> "line_98"
      [] line = "line_89"  -> "line_90"
      [] line = "line_98"  -> "line_99"
      [] line = "line_108" -> "line_112"
      [] line = "line_112" -> "line_115"
      [] line = "line_135" -> "line_138"
      [] line = "line_149" -> "line_199"
      [] line = "line_153" -> "line_154"
      [] line = "line_158" -> "line_161"
      [] line = "line_171" -> "line_172"
      [] line = "line_174" -> "line_175"
      [] line = "line_182" -> AtLine185(github_pat, push_success, iteration)
      [] line = "line_186" -> "line_187"
      [] line = "line_188" -> AtLine192(iteration)
      [] line = "line_190" -> AtLine192(iteration)
      [] line = "line_193" -> "line_199"

\* what a poller reads under live["iterations"]: the empty list of main.py
\* line 132 until line 145 has put ci_timeline itself there
Iterations == IF live_iterations = "ci_timeline" THEN ci_timeline ELSE <<>>

\* the variables the live updates leave alone
liveIdleVars == << repo, checkout, files, gen_log, all_fixes, commit_count,
                   final_status, disk, lastFix, pending, raised_in, outcome,
                   result, artifact, branch_calls, writes_before_branch, nExec,
                   nFixCalls, nCommit, nPoll, cleanup_calls, cleanup_result,
                   run, worker, futures, ci_poll, github_pat >>
\* the locals of run_pipeline
liveLocals == << test_files, iteration, all_failures, fix_i, fixed_files,
                 push_success, ci_timeline >>
\* the live record
liveRecord == << phase, message, terminal_output, live_iterations >>

InitLive ==
    /\ pc = "line_71"
    /\ github_pat \in BOOLEAN
    /\ repo = None
    /\ checkout = "absent"
    /\ files = {}
    /\ test_files = {}
    /\ gen_log = {}
    /\ phase = "queued"
    /\ message = <<"Queued">>
    /\ iteration = 0
    /\ all_failures = <<>>
    /\ fix_i = 0
    /\ fixed_files = <<>>
    /\ all_fixes = <<>>
    /\ push_success = FALSE
    /\ commit_count = 0
    /\ ci_timeline = <<>>
    /\ final_status = "unset"
    /\ disk = [f \in ExistingFiles |-> <<"a", "nl">>]
    /\ lastFix = NoFix
    /\ pending = "none"
    /\ raised_in = "none"
    /\ outcome = "none"
    /\ result = NoResult
    /\ artifact = "none"
    /\ branch_calls = 0
    /\ writes_before_branch = 0
    /\ nExec = 0
    /\ nFixCalls = 0
    /\ nCommit = 0
    /\ nPoll = 0
    /\ cleanup_calls = 0
    /\ cleanup_result = "none"
    /\ run = [ status |-> "running", result |-> NoResult, error |-> None ]
    /\ worker = "line_87"
    /\ pollers = [p \in LivePollers |-> NoObservation]
    /\ lastCall = NoCall
    /\ futures = <<>>
    /\ ci_poll = NoPoll
    /\ LiveIdle

\* run_pipeline calls update_live
update_live ==
    /\ lastCall = NoCall
    /\ \E site \in LiveSites :
          /\ pc = site.line
          /\ lastCall' = [ fn |-> "update_live", at |-> "line_62",
                           phase |-> site.phase,
                           message |-> LiveMessage(site),
                           append_terminal |-> LiveTerminal(site) ]
    /\ UNCHANGED << pc, pollers, liveIdleVars, liveLocals, liveRecord >>

\* line 62: if phase: live["phase"] = phase
Line62 ==
    /\ lastCall.fn = "update_live"
    /\ lastCall.at = "line_62"
    /\ phase' = IF lastCall.phase # None THEN lastCall.phase ELSE phase
    /\ lastCall' = [ lastCall EXCEPT !.at = "line_63" ]
    /\ UNCHANGED << pc, pollers, liveIdleVars, liveLocals, message,
                    terminal_output, live_iterations >>

\* line 63: if message: live["message"] = message
Line63 ==
    /\ lastCall.fn = "update_live"
    /\ lastCall.at = "line_63"
    /\ message' = IF lastCall.message # None THEN lastCall.message ELSE message
    /\ lastCall' = [ lastCall EXCEPT !.at = "line_64" ]
    /\ UNCHANGED << pc, pollers, liveIdleVars, liveLocals, phase,
                    terminal_output, live_iterations >>

\* line 64: if append_terminal: live["terminal_output"] += append_terminal,
\* and the return to run_pipeline
Line64 ==
    /\ lastCall.fn = "update_live"
    /\ lastCall.at = "line_64"
    /\ terminal_output' =
          IF lastCall.append_terminal # None
          THEN AppendTerminal(terminal_output, lastCall.append_terminal)
          ELSE terminal_output
    /\ lastCall' = NoCall
    /\ pc' = AfterCall(pc)
    /\ UNCHANGED << pollers, liveIdleVars, liveLocals, phase, message,
                    live_iterations >>

\* a statement of run_pipeline that leaves the locals alone and goes to one
\* of the given lines, or raises and ends the run
Statement(line, nexts, raises) ==
    /\ pc = line
    /\ lastCall = NoCall
    /\ \/ \E n \in nexts : pc' = n
       \/ raises /\ pc' = "exit"
    /\ UNCHANGED << pollers, lastCall, liveIdleVars, liveRecord >>

\* line 72: clone_repo; lines 75-76
LiveClone ==
    /\ Statement("line_72", {"line_76"}, TRUE)
    /\ UNCHANGED liveLocals

\* line 79: _discover_tests
LiveDiscover ==
    /\ Statement("line_79", {"line_80"}, FALSE)
    /\ test_files' \in { {}, {PathTest} }
    /\ UNCHANGED << iteration, all_failures, fix_i, fixed_files, push_success,
                    ci_timeline >>

\* lines 84-86: _generate_tests
LiveGenerate ==
    /\ pc = "line_84"
    /\ lastCall = NoCall
    /\ \E new_test_files \in { {}, {PathTest} } :
          /\ test_files' = IF new_test_files # {} THEN new_test_files
                           ELSE test_files
          /\ pc' = IF new_test_files # {} THEN "line_87" ELSE "line_89"
    /\ UNCHANGED << iteration, all_failures, fix_i, fixed_files, push_success,
                    ci_timeline >>
    /\ UNCHANGED << pollers, lastCall, liveIdleVars, liveRecord >>

\* lines 90-93: return _build_empty_result(...)
LiveReturnEmpty ==
    /\ Statement("line_90", {"exit"}, TRUE)
    /\ UNCHANGED liveLocals

\* line 99: create_branch
LiveCreateBranch ==
    /\ Statement("line_99", {"line_106"}, TRUE)
    /\ UNCHANGED liveLocals

\* line 106: for iteration in range(1, MAX_RETRIES + 1)
LiveFor ==
    /\ Statement("line_106", {"line_108"}, FALSE)
    /\ iteration' = iteration + 1
    /\ UNCHANGED << test_files, all_failures, fix_i, fixed_files, push_success,
                    ci_timeline >>

\* the passes whose tests were started and whose output was not appended
SilentPasses ==
    Cardinality({ k \in DOMAIN terminal_output :
                    terminal_output[k] = ">>> Running tests" })
      - Cardinality({ k \in DOMAIN terminal_output :
                        terminal_output[k] = "--- OUTPUT ---" })

\* lines 115-134: the test files run; output_blocks is empty when every
\* worker raised (line 130)
LiveRunTests ==
    /\ Statement("line_115",
                 IF SilentPasses <= MaxSilentPasses
                 THEN {"line_135", "line_138"} ELSE {"line_135"}, FALSE)
    /\ \E n \in 0..MaxLiveFailures :
          all_failures' = [k \in 1..n |-> [file |-> SrcCalc]]
    /\ UNCHANGED << test_files, iteration, fix_i, fixed_files, push_success,
                    ci_timeline >>

\* lines 137-144: ci_timeline.append(...)
LiveSummary ==
    /\ Statement("line_138", {"line_145"}, FALSE)
    /\ ci_timeline' = Append(ci_timeline,
                             Summary(iteration, Len(all_failures)))
    /\ UNCHANGED << test_files, iteration, all_failures, fix_i, fixed_files,
                    push_success >>

\* line 145: live["iterations"] = ci_timeline, and line 147
LiveIterations ==
    /\ pc = "line_145"
    /\ lastCall = NoCall
    /\ live_iterations' = "ci_timeline"
    /\ pc' = IF all_failures = <<>> THEN "line_149" ELSE "line_153"
    /\ UNCHANGED << pollers, lastCall, liveIdleVars, liveLocals, phase, message,
                    terminal_output >>

\* lines 154-156: fixed_files = [] and the first turn of the fix loop
LiveFixLoop ==
    /\ Statement("line_154", {AtLine156(1, all_failures)}, FALSE)
    /\ fix_i' = 1
    /\ fixed_files' = <<>>
    /\ UNCHANGED << test_files, iteration, all_failures, push_success,
                    ci_timeline >>

\* lines 160-164: _apply_fix and what it returned, then line 156
LiveApplyFix ==
    /\ Statement("line_161", {AtLine156(fix_i + 1, all_failures)}, TRUE)
    /\ fix_i' = fix_i + 1
    /\ \E status \in {"fixed", "failed"} :
          fixed_files' = IF status = "fixed"
                         THEN Append(fixed_files, all_failures[fix_i].file)
                         ELSE fixed_files
    /\ UNCHANGED << test_files, iteration, all_failures, push_success,
                    ci_timeline >>

\* lines 167-168
LiveIfFixed ==
    /\ Statement("line_167",
                 { IF fixed_files # <<>> THEN "line_171"
                   ELSE AtLine185(github_pat, FALSE, iteration) }, FALSE)
    /\ push_success' = FALSE
    /\ UNCHANGED << test_files, iteration, all_failures, fix_i, fixed_files,
                    ci_timeline >>

\* lines 172-173: commit_and_push returns, or raises into line 180
LiveCommit ==
    /\ Statement("line_172", {"line_174", "line_182"}, FALSE)
    /\ UNCHANGED liveLocals

\* line 175: push_success = True, and lines 177-185
LivePushed ==
    /\ Statement("line_175", {AtLine185(github_pat, TRUE, iteration)}, FALSE)
    /\ push_success' = TRUE
    /\ UNCHANGED << test_files, iteration, all_failures, fix_i, fixed_files,
                    ci_timeline >>

\* line 187: _poll_github_ci
LivePollCI ==
    /\ Statement("line_187", {"line_188"}, FALSE)
    /\ UNCHANGED liveLocals

\* lines 199-213: generate_results and the return
LiveResults ==
    /\ Statement("line_199", {"exit"}, TRUE)
    /\ UNCHANGED liveLocals

\* get_results, line 164: a poller reads the live record; grown tells that
\* the response holds more output and more summaries than the poller's last
PollLive(p) ==
    /\ pollers' = [ pollers EXCEPT ![p] =
                      [ phase |-> phase, message |-> message,
                        terminal_output |-> terminal_output,
                        iterations |-> Iterations,
                        grown |-> /\ pollers[p] # NoObservation
                                  /\ Len(pollers[p].terminal_output)
                                        < Len(terminal_output)
                                  /\ Len(pollers[p].iterations)
                                        < Len(Iterations) ] ]
    /\ UNCHANGED << pc, lastCall, liveIdleVars, liveLocals, liveRecord >>

NextLive ==
    \/ update_live
    \/ Line62
    \/ Line63
    \/ Line64
    \/ LiveClone
    \/ LiveDiscover
    \/ LiveGenerate
    \/ LiveReturnEmpty
    \/ LiveCreateBranch
    \/ LiveFor
    \/ LiveRunTests
    \/ LiveSummary
    \/ LiveIterations
    \/ LiveFixLoop
    \/ LiveApplyFix
    \/ LiveIfFixed
    \/ LiveCommit
    \/ LivePushed
    \/ LivePollCI
    \/ LiveResults
    \/ \E p \in LivePollers : PollLive(p)

SpecLive == InitLive /\ [][NextLive]_vars

(***************************************************************************)
(* Properties                                                              *)
(***************************************************************************)
\* most steps one pass takes: the tests, the diagnosis, one fix per failure,
\* commit, poll
PassCost == MaxFailures + 4

\* steps left to take before every loop pass still allowed has been spent
LoopBudget == (MAX_RETRIES - iteration) * PassCost

\* a bound on the number of steps the run can still take
Rank ==
    CASE pc = "clone"        -> 6 + MAX_RETRIES * PassCost
      [] pc = "discover"     -> 5 + MAX_RETRIES * PassCost
      [] pc = "generate"     -> 4 + MAX_RETRIES * PassCost
      [] pc = "branch"       -> 3 + MAX_RETRIES * PassCost
      [] pc = "execute"      -> 2 + LoopBudget
      [] pc = "diagnose"     -> 2 + LoopBudget + 3 + MaxFailures
      [] pc = "fix"          -> 2 + LoopBudget + 2 + (Len(all_failures) - fix_i + 1)
      [] pc = "commit"       -> 2 + LoopBudget + 2
      [] pc = "poll"         -> 2 + LoopBudget + 1
      [] pc = "results"      -> 2
      [] pc = "empty_result" -> 2
      [] pc = "finally"      -> 1
      [] OTHER               -> 0

LastSummary == ci_timeline[Len(ci_timeline)]

AllFail(timeline) == \A k \in 1..Len(timeline) : timeline[k].status = "FAIL"

\* the entries the fix phase of the current pass has produced
PassEntries == { k \in 1..Len(all_fixes) : all_fixes[k].iteration = iteration }

C1_PassesBounded ==
    /\ nExec <= MAX_RETRIES
    /\ iteration <= MAX_RETRIES
    /\ Len(ci_timeline) <= MAX_RETRIES
    /\ Rank \in Nat
    /\ (pc # "exit" => ENABLED Next)

\* C1: whatever the tests, the fixes, the pushes and the CI polls answer, the
\* heal loop executes at most MAX_RETRIES (5) passes, and the run terminates:
\* every step of run_pipeline lowers a natural-number bound on the steps
\* left, and a step is possible as long as the run has not left run_pipeline.
C1_Terminates == [](C1_PassesBounded) /\ [][Rank' < Rank]_vars

\* a run that failed in all five passes and has left run_pipeline
C1_Witness ==
    /\ pc = "exit"
    /\ nExec = MAX_RETRIES
    /\ AllFail(ci_timeline)
    /\ outcome = "returned"

C2_Passed ==
    /\ (ci_timeline # <<>> /\ LastSummary.status = "PASS")
          => final_status = "PASSED"
    /\ final_status = "PASSED"
          => /\ pc \in {"results", "finally", "exit"}
             /\ Len(ci_timeline) = iteration
             /\ nExec = iteration
             /\ iteration \in 1..MAX_RETRIES
             /\ LastSummary.status = "PASS"
             /\ AllFail(SubSeq(ci_timeline, 1, iteration - 1))
             /\ (result # NoResult => /\ result.final_ci_status = "PASSED"
                                      /\ Len(result.cicd_timeline) = iteration)

\* C2: at the first pass k whose aggregated failure list is empty, the final
\* status becomes PASSED with exactly k Iteration Summaries (k - 1 FAIL, then
\* one PASS), and from then on the run executes no test pass, applies no fix,
\* makes no commit/push and polls no CI.
C2_ShortCircuit ==
    /\ [](C2_Passed)
    /\ [][ final_status = "PASSED"
             => UNCHANGED << nExec, nFixCalls, nCommit, nPoll, ci_timeline,
                             all_fixes, iteration, final_status >> ]_vars

\* a run that passed in its third pass, and one that passed in its first
C2_Witness ==
    /\ pc = "exit"
    /\ outcome = "returned"
    /\ result.final_ci_status = "PASSED"
    /\ Len(result.cicd_timeline) = 3
    /\ nFixCalls >= 2

\* the heal loop has been left
LoopLeft ==
    \/ pc = "results"
    \/ pc \in {"finally", "exit"} /\ nExec >= 1

\* C3: if every pass yields at least one failure, the loop is left only after
\* iteration 5, with final status FAILED and exactly 5 Iteration Summaries.
C3_Exhaustion ==
    (LoopLeft /\ AllFail(ci_timeline))
        => /\ iteration = MAX_RETRIES
           /\ Len(ci_timeline) = MAX_RETRIES
           /\ final_status = "FAILED"

\* C4: a failure record whose resolved path holds a vendor segment
\* (site-packages, .venv, AppData) gets a Fix Entry with status failed, before
\* any read or write of the file and without generated code being requested.
C4_VendorRejected ==
    ( /\ lastFix.call = "done"
      /\ \E m \in {"site-packages", ".venv", "AppData"} :
            PathContains(lastFix.full_path, m) )
        => /\ ~lastFix.raised
           /\ lastFix.entry.status = "failed"
           /\ ~lastFix.read
           /\ ~lastFix.wrote
           /\ ~lastFix.generated
           /\ disk = lastFix.disk_before

\* C5: whatever goes wrong while one failure record is handled stays inside
\* _apply_fix: no exception of the fix phase ends the run, and when the fix
\* phase of a pass is over there is one Fix Entry per failure record.
C5_FixNeverAborts ==
    /\ raised_in # "fix"
    /\ pc = "commit" => Cardinality(PassEntries) = Len(all_failures)

\* C6: a change is accepted only if the content generate_fix returns is
\* non-empty and differs from the original; when it is empty or identical the
\* Fix Entry has status failed and the file on disk is as it was.
C6_NoOpIsNotSuccess ==
    lastFix.call = "done" =>
        /\ ( /\ lastFix.generated
             /\ lastFix.fixed_code \in {<<>>, lastFix.original_code} )
              => /\ ~lastFix.raised
                 /\ lastFix.entry.status = "failed"
                 /\ ~lastFix.wrote
                 /\ disk = lastFix.disk_before
        /\ (lastFix.entry.status = "fixed" \/ disk # lastFix.disk_before)
              => /\ lastFix.generated
                 /\ lastFix.fixed_code # <<>>
                 /\ lastFix.fixed_code # lastFix.original_code
                 /\ disk[lastFix.file] = lastFix.fixed_code

\* a backend answered with exactly the content of the file
C6_Witness ==
    /\ lastFix.call = "done"
    /\ lastFix.generated
    /\ lastFix.fixed_code = lastFix.original_code
    /\ lastFix.original_code = <<"a">>
    /\ lastFix.entry.status = "failed"

\* C7: when the target file does not exist, _apply_fix returns a Fix Entry
\* with status failed, asks neither for a patch nor for a commit message, and
\* writes nothing.
C7_MissingFile ==
    (lastFix.call = "done" /\ ~lastFix.existed)
        => /\ ~lastFix.raised
           /\ lastFix.entry.status = "failed"
           /\ ~lastFix.generated
           /\ ~lastFix.explained
           /\ ~lastFix.wrote
           /\ disk = lastFix.disk_before

\* generate_tests_for_code failed for every candidate of a repository that
\* has candidates and no test file
GenerationFailedForAll ==
    /\ gen_log # {}
    /\ \A g \in gen_log : g.body = "generation_failed_marker"

\* C8: with no test file and a generation call that fails for every
\* candidate, the run ends at once with status PASSED and the one synthetic
\* summary: no working branch is created and no test pass is executed.
C8_ScenarioB ==
    GenerationFailedForAll
        => /\ pc \in {"empty_result", "finally", "exit"}
           /\ branch_calls = 0
           /\ nExec = 0
           /\ writes_before_branch = 0
           /\ (outcome = "returned"
                 => /\ result.final_ci_status = "PASSED"
                    /\ Len(result.cicd_timeline) = 1)

\* C9: the working branch is created exactly once, before the first pass and
\* before anything is written into the checkout.
C9_BranchFirst ==
    /\ branch_calls <= 1
    /\ writes_before_branch = 0
    /\ nExec >= 1 => branch_calls = 1

\* C10: when control has left run_pipeline with a clone obtained, cleanup_clone
\* has run (once), whether the run returned or raised; the outcome the caller
\* gets is the one the try block produced, whatever cleanup did.
C10_CleanupAlways ==
    /\ pc # "exit" => outcome = "none"
    /\ cleanup_calls <= 1
    /\ pc = "exit" =>
          /\ repo # None => (cleanup_calls = 1 /\ cleanup_result # "none")
          /\ cleanup_result = "removed" => checkout = "removed"
          /\ outcome \in {"returned", "raised"}
          /\ outcome = "returned" <=> result # NoResult
          /\ outcome = "raised" <=> raised_in # "none"

\* the run was ended by an exception after the clone and cleanup itself failed
C10_Witness ==
    /\ pc = "exit"
    /\ repo # None
    /\ raised_in = "fix"
    /\ outcome = "raised"
    /\ cleanup_result = "raised"
    /\ cleanup_calls = 1

\* the commit/push of the current pass was tried and failed
PushFailed == pc = "poll" /\ fixed_files # <<>> /\ ~push_success

\* C11: a commit/push failure in a pass is caught and reported in the live
\* message, the run does not fail, the pass makes no CI poll, and in a pass
\* before the fifth the next step is the test execution of the next pass, on
\* the files as the fixes left them.
C11_PushFailureNonFatal ==
    /\ [](raised_in # "commit")
    /\ [](PushFailed => /\ message = <<"Push failed">>
                       /\ pending = "none"
                       /\ ENABLED PollCI)
    /\ [][ PushFailed =>
             /\ nPoll' = nPoll
             /\ pending' = "none"
             /\ disk' = disk
             /\ iteration < MAX_RETRIES => pc' = "execute"
          ]_vars
    /\ [](pc = "execute" => ENABLED ExecuteTests)
    /\ [][ pc = "execute" => nExec' = nExec + 1 ]_vars

\* the push failed in pass 1 and pass 2 has executed the tests on the fixed file
C11_Witness ==
    /\ nExec = 2
    /\ nCommit = 1
    /\ commit_count = 0
    /\ nPoll = 0
    /\ github_pat
    /\ disk[SrcCalc] = <<"b">>
    /\ pending = "none"

\* C12: the CI result never steers the loop: a poll is answered by any of the
\* five results, and whichever it is the step leaves the pass count, the
\* final status, the Iteration Summaries and the Fix Entries as they were and
\* goes where the pass number alone decides; the result is kept in the live
\* message only.
C12_CiNeverSteers ==
    /\ [](pc = "poll" => \A c \in CiStatuses : ENABLED PollStep(c))
    /\ [][ pc = "poll" =>
             /\ UNCHANGED << iteration, nExec, nFixCalls, nCommit, ci_timeline,
                             all_fixes, final_status, commit_count, disk,
                             push_success, pending >>
             /\ pc' = IF iteration < MAX_RETRIES THEN "execute" ELSE "results"
          ]_vars

\* a poll answered "success" after which the loop went on with pass 2, which
\* found failures
C12_Witness ==
    /\ nPoll = 1
    /\ nExec = 2
    /\ pc = "fix"
    /\ final_status = "FAILED"

\* C13: a response of get_results that reports status completed carries a
\* result, and a response that reports status queued or running carries none.
C13_ResultNullUntilCompleted ==
    \A p \in Pollers :
        (pollers[p].at = "done" /\ pollers[p].code = 200) =>
            /\ pollers[p].status = "completed" => pollers[p].result # NoResult
            /\ pollers[p].status \in {"queued", "running"}
                  => pollers[p].result = NoResult

\* the part of the branch name the claim derives from one identity string:
\* the alphanumerics and spaces, upper-cased, spaces as underscores
C14_ClaimedPart(name) ==
    LET kept == SelectSeq(name, LAMBDA c : c \in {"a", "A", "B", "7", "sp"})
    IN  [ k \in 1..Len(kept) |->
            CASE kept[k] = "a"  -> "A"
              [] kept[k] = "sp" -> "_"
              [] OTHER          -> kept[k] ]

\* the same from the string without what precedes its first and follows its
\* last letter or digit
C14_TrimmedPart(name) ==
    LET solid == { k \in 1..Len(name) : name[k] \in {"a", "A", "B", "7"} }
    IN  IF solid = {} THEN <<>>
        ELSE LET lo == CHOOSE k \in solid : \A j \in solid : k <= j
                 hi == CHOOSE k \in solid : \A j \in solid : j <= k
             IN  C14_ClaimedPart(SubSeq(name, lo, hi))

\* C14: the derived branch name is the two identity strings, each stripped
\* to alphanumerics and spaces, upper-cased, spaces replaced by underscores,
\* joined with an underscore and suffixed _AI_FIX.
C14_BranchNameAsClaimed ==
    lastCall.fn = "derive_branch_name" =>
        lastCall.branch_name =
            C14_ClaimedPart(lastCall.team_name) \o <<"_">>
               \o C14_ClaimedPart(lastCall.leader_name)
               \o <<"_", "A", "I", "_", "F", "I", "X">>

\* C14 as amended: each identity string is stripped to alphanumerics and
\* spaces and of its leading and trailing spaces, upper-cased, spaces
\* replaced by underscores; the two are joined with an underscore and
\* suffixed _AI_Fix.
C14_BranchName ==
    lastCall.fn = "derive_branch_name" =>
        lastCall.branch_name =
            C14_TrimmedPart(lastCall.team_name) \o <<"_">>
               \o C14_TrimmedPart(lastCall.leader_name)
               \o <<"_", "A", "I", "_", "F", "i", "x">>

\* a team name with a leading space, an inner space and a special character
C14_Witness ==
    /\ lastCall.fn = "derive_branch_name"
    /\ lastCall.team_name = <<"sp", "a", "-">>
    /\ lastCall.leader_name = <<"7", "sp">>
    /\ lastCall.branch_name = <<"A", "_", "7", "_", "A", "I", "_", "F", "i", "x">>

\* pass 1 reported exactly one failure, its fix was applied, and pass 2
\* reported none
ScenarioA ==
    /\ Len(ci_timeline) >= 2
    /\ ci_timeline[1].failures_count = 1
    /\ ci_timeline[2].failures_count = 0
    /\ all_fixes # <<>>
    /\ all_fixes[1].status = "fixed"

\* C15: in scenario A the run ends with final status PASSED, exactly two
\* Iteration Summaries (FAIL with 1 failure, PASS with 0) and exactly one Fix
\* Entry, with status fixed and iteration 1; that is what the result reports.
C15_ScenarioA ==
    ScenarioA =>
        /\ pc \in {"results", "finally", "exit"}
        /\ final_status = "PASSED"
        /\ nExec = 2
        /\ ci_timeline = << Summary(1, 1), Summary(2, 0) >>
        /\ ci_timeline[1].status = "FAIL"
        /\ ci_timeline[2].status = "PASS"
        /\ Len(all_fixes) = 1
        /\ all_fixes[1].iteration = 1
        /\ outcome = "returned" =>
              /\ result.final_ci_status = "PASSED"
              /\ result.cicd_timeline = ci_timeline
              /\ result.fixes_table = all_fixes

\* scenario A has run to its end and returned its result
C15_Witness ==
    /\ ScenarioA
    /\ pc = "exit"
    /\ outcome = "returned"
    /\ result.final_ci_status = "PASSED"
    /\ Len(result.fixes_table) = 1
    /\ result.fixes_table[1].file = SrcCalc

\* the categories in their order of precedence
BugTypes == <<"INDENTATION", "SYNTAX", "IMPORT", "TYPE_ERROR", "LINTING", "LOGIC">>

\* the place in that order of the category whose keyword a word carries,
\* whatever its case; 6 (LOGIC) for a word that carries none
C19_WordRank(w) ==
    CASE w \in {"IndentationError", "unexpected indent"} -> 1
      [] w \in {"SyntaxError", "invalid syntax", "SYNTAX"} -> 2
      [] w \in {"ImportError", "ModuleNotFoundError", "cannot import"} -> 3
      [] w \in {"TypeError", "type error", "unsupported operand"} -> 4
      [] w \in {"flake8", "pylint", "pep8", "unused import"} -> 5
      [] OTHER -> 6

C19_Ranks(ws) == { C19_WordRank(ws[k]) : k \in 1..Len(ws) } \cup {6}

C19_Least(ranks) == CHOOSE r \in ranks : \A q \in ranks : r <= q

\* C19: _classify_bug always answers with one of the six categories, and the
\* answer is the first in the order INDENTATION, SYNTAX, IMPORT, TYPE_ERROR,
\* LINTING whose keyword occurs in the text or the full output, whatever the
\* case of the letters, and LOGIC when none occurs.
C19_Precedence ==
    lastCall.fn = "_classify_bug" =>
        /\ \E r \in 1..6 : lastCall.bug_type = BugTypes[r]
        /\ lastCall.bug_type =
              BugTypes[C19_Least(C19_Ranks(lastCall.text)
                                    \cup C19_Ranks(lastCall.full_output))]

\* a text with "unused import" before "SYNTAX" is classified SYNTAX
C19_Witness ==
    /\ lastCall.fn = "_classify_bug"
    /\ lastCall.text = <<"unused import", "SYNTAX">>
    /\ lastCall.full_output = <<>>
    /\ lastCall.bug_type = "SYNTAX"

\* the key the claim names: file, line and the first 100 characters of the
\* message
C18_Key(f) ==
    << f.file, f.line,
       [ k \in 1..(IF Len(f.error_message) < 100 THEN Len(f.error_message) ELSE 100)
           |-> f.error_message[k] ] >>

\* the places of a list of records where a key appears for the first time
C18_Firsts(found) ==
    { i \in 1..Len(found) : \A h \in 1..(i - 1) : C18_Key(found[h]) # C18_Key(found[i]) }

\* the k-th smallest of a set of places
C18_Nth(places, k) ==
    CHOOSE i \in places : Cardinality({ h \in places : h <= i }) = k

\* the failure lines that carry their own message, without the white space
\* at their ends
C18_OwnLines(lines) ==
    { Strip(lines[k]) : k \in { h \in 1..Len(lines) :
                                  ~Contains(lines[h], <<"F", "i", "l", "e", "sp">>) } }

C18_TracebackLines(lines) ==
    { h \in 1..Len(lines) : Contains(lines[h], <<"F", "i", "l", "e", "sp">>) }

C16_Finished ==
    { tf \in DOMAIN futures : futures[tf].state \in {"done", "collected"} }

C16_Combined(tf) ==
    futures[tf].proc.stdout \o <<"nl">> \o futures[tf].proc.stderr

\* the elements of a list
C16_Elems(list) == { list[k] : k \in 1..Len(list) }

\* C16: a test file whose process ended with a return code other than 0 is
\* reported as not passed and never with an empty failure list; when the
\* parser finds no failure in its output, the list holds exactly one record,
\* at the test file, line 0, bug type LOGIC, whose message carries the
\* combined output, and the pass collects that record.
C16_GenericFailure ==
    \A tf \in C16_Finished :
        LET proc == futures[tf].proc
            r    == futures[tf].result
        IN  proc.kind = "exit" /\ proc.returncode # 0 =>
              /\ ~r.passed
              /\ r.failures # <<>>
              /\ _parse_failures(C16_Combined(tf), tf) = <<>> =>
                    /\ Len(r.failures) = 1
                    /\ r.failures[1].file = tf
                    /\ r.failures[1].line = 0
                    /\ r.failures[1].bug_type = "LOGIC"
                    /\ Contains(r.failures[1].error_message,
                                Strip(C16_Combined(tf)))
                    /\ futures[tf].state = "collected" =>
                          r.failures[1] \in C16_Elems(all_failures)

C16_Witness ==
    \E tf \in C16_Finished :
        /\ futures[tf].state = "collected"
        /\ futures[tf].proc.kind = "exit"
        /\ futures[tf].proc.returncode = 1
        /\ futures[tf].proc.stdout # <<>>
        /\ futures[tf].proc.stderr # <<>>
        /\ _parse_failures(C16_Combined(tf), tf) = <<>>
        /\ Len(futures[tf].result.failures) = 1
        /\ futures[tf].result.failures[1] \in C16_Elems(all_failures)

\* the report of a test file that did not pass: one LOGIC record at the test
\* file, line 0, with the message given
C17_Reported(tf, error_message) ==
    /\ ~futures[tf].result.passed
    /\ futures[tf].result.failures =
          << [ file |-> tf, line |-> 0, error_message |-> error_message,
               bug_type |-> "LOGIC" ] >>

C17_TimedOut == { tf \in C16_Finished : futures[tf].proc.kind = "timeout" }

\* run_tests returns a report for a process that raised, whatever it raised
C17_ErrorsReported ==
    \A tf \in C16_Finished :
        futures[tf].proc.kind = "error" =>
            C17_Reported(tf, futures[tf].proc.exc)

\* every result that is ready can be collected whatever the other tasks
\* did, collecting it leaves the other tasks and the records collected so
\* far alone, and the records of a collected test file that did not pass are
\* in the list of the pass
C17_SiblingsCollected ==
    /\ [](\A tf \in DOMAIN futures :
            /\ futures[tf].state = "done" => ENABLED Collect(tf)
            /\ futures[tf].state = "collected" /\ ~futures[tf].result.passed
                 => C16_Elems(futures[tf].result.failures)
                       \subseteq C16_Elems(all_failures))
    /\ [][ /\ Len(all_failures') >= Len(all_failures)
           /\ SubSeq(all_failures', 1, Len(all_failures)) = all_failures
           /\ \A tf \in DOMAIN futures :
                 futures'[tf] # futures[tf] =>
                    \A other \in DOMAIN futures \ {tf} :
                        futures'[other] = futures[other] ]_vars

\* C17 as stated: the message of the record of a timeout is "Timeout."
C17_TimeoutFullStop ==
    /\ [](\A tf \in C17_TimedOut :
            C17_Reported(tf, <<"T", "i", "m", "e", "o", "u", "t", ".">>))
    /\ []C17_ErrorsReported
    /\ C17_SiblingsCollected

\* C17: a test file whose process exceeds the time limit is reported as not
\* passed with exactly one record, at the test file, line 0, bug type LOGIC,
\* message "Timeout" (no full stop); a test file whose process raises
\* anything else is reported in the same shape with the text of the
\* exception; neither keeps the results of the other test files of the pass
\* from being collected.
C17_TimeoutAndErrors ==
    /\ [](\A tf \in C17_TimedOut :
            C17_Reported(tf, <<"T", "i", "m", "e", "o", "u", "t">>))
    /\ []C17_ErrorsReported
    /\ C17_SiblingsCollected

C17_Witness ==
    \E tf, other \in DOMAIN futures :
        /\ tf # other
        /\ futures[tf].state = "collected"
        /\ futures[tf].proc.kind = "timeout"
        /\ futures[other].state = "collected"
        /\ futures[other].proc.kind = "error"
        /\ Len(all_failures) = 2
        /\ all_failures[1].file = other
        /\ all_failures[2].file = tf

\* the conclusions a response reports
C20_Reported(resp) ==
    { resp.check_runs[k] : k \in 1..Len(resp.check_runs) } \ {"none"}

\* the poller has returned the value given after this answer
C20_Returns(value) ==
    /\ ci_poll'.at = "returned"
    /\ ci_poll'.returned = value

C21_Unresolved ==
    /\ ci_poll.resp.kind = "response"
    /\ ci_poll.resp.status_code = 200
    /\ "failure" \notin C20_Reported(ci_poll.resp)
    /\ C20_Reported(ci_poll.resp) # {"success"}

\* C21: whatever the service answers, the poller issues at most max_polls
\* (10) queries, one at a time, is never stuck before it has returned, and
\* does return; when the last of the max_polls answers still leaves the
\* matter open it returns "pending".
C21_BoundedPolling ==
    /\ [](ci_poll.polls <= max_polls)
    /\ [][ ci_poll'.polls \in {ci_poll.polls, ci_poll.polls + 1} ]_vars
    /\ [](ci_poll.at # "returned" => ENABLED NextCI)
    /\ [](ci_poll.at = "returned" /\ ci_poll.polls = max_polls /\ C21_Unresolved
            => ci_poll.returned = "pending")
    /\ <>(ci_poll.at = "returned")

C21_Witness ==
    /\ ci_poll.at = "returned"
    /\ ci_poll.polls = max_polls
    /\ ci_poll.returned = "pending"
    /\ ci_poll.resp.check_runs = <<"none", "neutral">>

\* the number of failure records of the test files of the set that did not pass
RECURSIVE C22_Records(_)
C22_Records(units) ==
    IF units = {} THEN 0
    ELSE LET tf == CHOOSE u \in units : TRUE
         IN  (IF futures[tf].result.passed THEN 0
              ELSE Len(futures[tf].result.failures))
             + C22_Records(units \ {tf})

\* C22: a pass has one task per test file; at most 4 of them run at the same
\* time, and a task that waits is not started while 4 run; the diagnosis and
\* the fixes of the pass start only when every task has completed and its
\* result was collected, so the list they work on holds the records of
\* every test file that did not pass, and it does not change afterwards.
C22_PoolAndJoin ==
    /\ [](DOMAIN futures = test_files)
    /\ [](Cardinality(Running) <= 4)
    /\ [](Cardinality(Running) = 4 =>
            \A tf \in DOMAIN futures : ~ENABLED TaskStart(tf))
    /\ [](pc # "execute" \/ nFixCalls > 0 =>
            /\ \A tf \in DOMAIN futures : futures[tf].state = "collected"
            /\ Len(all_failures) = C22_Records(DOMAIN futures)
            /\ \A tf \in DOMAIN futures :
                  ~futures[tf].result.passed =>
                     C16_Elems(futures[tf].result.failures)
                        \subseteq C16_Elems(all_failures))
    /\ [][ pc # "execute" =>
             futures' = futures /\ all_failures' = all_failures ]_vars

C22_Witness ==
    /\ Cardinality(Running) = 4
    /\ \E tf \in DOMAIN futures : futures[tf].state = "submitted"

\* the place of a test file in the order of discovery
C23_Place(file) == CHOOSE k \in 1..Len(PassUnits) : PassUnits[k] = file

\* the fixes of a pass are applied one at a time, one per failure record
C23_OneByOne ==
    /\ [][ nFixCalls' \in {nFixCalls, nFixCalls + 1} ]_vars
    /\ [][ disk' # disk \/ all_fixes' # all_fixes
             => nFixCalls' = nFixCalls + 1 ]_vars
    /\ [](pc = "commit" =>
            nFixCalls = Len(all_failures) /\ Len(all_fixes) = Len(all_failures))

\* C23 as stated: the failures of a test file discovered earlier are fixed
\* before those of a test file discovered later
C23_DiscoveryOrder ==
    /\ C23_OneByOne
    /\ [](\A i, j \in 1..Len(all_fixes) :
            i < j => C23_Place(all_fixes[i].file) <= C23_Place(all_fixes[j].file))

\* C23: within a pass the Fix Applicator is called once per failure record,
\* one call at a time, in the order of the aggregated list; that list takes
\* the records of each test file when its result is collected, so it follows
\* the order in which the test files complete, not the order of discovery.
C23_AggregationOrder ==
    /\ C23_OneByOne
    /\ [](\A k \in 1..Len(all_fixes) : all_fixes[k].file = all_failures[k].file)
    /\ [][ \A tf \in DOMAIN futures :
             futures[tf].state = "done" /\ futures'[tf].state = "collected" =>
                all_failures' = all_failures \o
                    (IF futures[tf].result.passed THEN <<>>
                     ELSE futures[tf].result.failures) ]_vars

C23_Witness ==
    /\ pc = "commit"
    /\ Len(all_fixes) = 2
    /\ all_fixes[1].file = PassUnits[5]
    /\ all_fixes[2].file = PassUnits[1]

\* C24: the commit identifier of a Fix Entry is null until a push succeeds
\* and comes only from the successful push of the entry's own batch: an
\* entry with status failed never has one, and an entry whose pass pushed
\* nothing never takes the identifier of a later pass; the other fields of an
\* entry, and an identifier once set, never change.
C24_ShaOfOwnBatch ==
    /\ [](\A k \in 1..Len(all_fixes) :
            all_fixes[k].sha # NoSha =>
               /\ all_fixes[k].status = "fixed"
               /\ all_fixes[k].sha = all_fixes[k].iteration)
    /\ [][ \A k \in 1..Len(all_fixes) :
             /\ Len(all_fixes') >= k
             /\ [ all_fixes'[k] EXCEPT !.sha = NoSha ]
                   = [ all_fixes[k] EXCEPT !.sha = NoSha ]
             /\ all_fixes[k].sha # NoSha => all_fixes'[k].sha = all_fixes[k].sha
         ]_vars

\* the place of a phase in discovery -> [generation] -> branching ->
\* {execution -> fixing -> committing -> ci_poll}* -> done
C25_Place(ph) ==
    CASE ph = "queued"     -> 0
      [] ph = "discovery"  -> 1
      [] ph = "generation" -> 2
      [] ph = "branching"  -> 3
      [] ph = "execution"  -> 4
      [] ph = "fixing"     -> 5
      [] ph = "committing" -> 6
      [] ph = "ci_poll"    -> 7
      [] ph = "done"       -> 8

C25_InCycle(ph) == ph \in {"execution", "fixing", "committing", "ci_poll"}

\* C25: the live phase moves forward only along discovery, generation,
\* branching, the cycle execution, fixing, committing, ci_poll, and done;
\* the one step back is from a phase of the cycle to execution, which begins
\* the next pass; so after execution has started the phase is never again
\* discovery, generation or branching, and within a pass the phases of the
\* cycle come in their order; execution is entered at most 5 times; and the
\* phase done never changes.
C25_PhaseMachine ==
    /\ [][ phase' # phase =>
             \/ C25_Place(phase') > C25_Place(phase)
             \/ /\ phase' = "execution"
                /\ C25_InCycle(phase)
                /\ iteration' = iteration + 1 ]_vars
    /\ [][ iteration' = iteration /\ C25_InCycle(phase) /\ C25_InCycle(phase')
             => C25_Place(phase') >= C25_Place(phase) ]_vars
    /\ [][ phase' = "execution" /\ phase # "execution"
             => nExec' = nExec + 1 ]_vars
    /\ [](nExec <= 5)
    /\ [](nExec > 0 => phase \notin {"queued", "discovery", "generation",
                                     "branching"})
    /\ [][ phase = "done" => phase' = "done" ]_vars

C25_Witness ==
    /\ phase = "done"
    /\ nExec = 5
    /\ nCommit > 0
    /\ nPoll > 0
    /\ final_status # "PASSED"

\* C26: every pass that has run its tests has recorded exactly one
\* Iteration Summary, whatever happened in it: after the i-th pass the list
\* has i elements, the k-th has iteration k (between 1 and 5), a status PASS
\* or FAIL, PASS exactly when its failure count is 0, and the count of the
\* last is the number of failures of the pass; the list only grows at its
\* end, one element at a time.
C26_OneSummaryPerPass ==
    /\ [](pc = "diagnose" => Len(ci_timeline) = nExec - 1)
    /\ [](nExec > 0 /\ pc # "diagnose" =>
            /\ Len(ci_timeline) = nExec
            /\ ci_timeline[nExec].failures_count = Len(all_failures))
    /\ [](nExec > 0 =>
            \A k \in 1..Len(ci_timeline) :
                /\ ci_timeline[k].iteration = k
                /\ k <= 5
                /\ ci_timeline[k].status \in {"PASS", "FAIL"}
                /\ ci_timeline[k].status = "PASS"
                      <=> ci_timeline[k].failures_count = 0)
    /\ [][ /\ Len(ci_timeline') \in {Len(ci_timeline), Len(ci_timeline) + 1}
           /\ SubSeq(ci_timeline', 1, Len(ci_timeline)) = ci_timeline ]_vars

C26_Witness ==
    /\ Len(ci_timeline) = 3
    /\ ci_timeline[1].status = "FAIL"
    /\ ci_timeline[2].status = "FAIL"
    /\ ci_timeline[3].status = "PASS"
    /\ nCommit = 1
    /\ commit_count = 0

\* the target files of the entries with status fixed of the pass given
C27_FixedIn(pass) ==
    { all_fixes[k].file :
        k \in { j \in 1..Len(all_fixes) :
                  all_fixes[j].iteration = pass /\ all_fixes[j].status = "fixed" } }

\* the passes that have an entry with status fixed
C27_PassesWithFix == { pass \in 1..iteration : C27_FixedIn(pass) # {} }

\* C27: a failing pass attempts a commit+push at most once, and does so
\* exactly when one of its Fix Entries has status fixed: when the fix loop
\* of a pass is over, as many commits were attempted as there are passes
\* with a fixed entry; the files staged are the target files of the fixed
\* entries of the pass and no others.
C27_CommitIffFixed ==
    /\ [][ nCommit' \in {nCommit, nCommit + 1} ]_vars
    /\ [][ nCommit' = nCommit + 1 =>
             /\ pc = "commit"
             /\ C16_Elems(fixed_files) = C27_FixedIn(iteration)
             /\ C27_FixedIn(iteration) # {} ]_vars
    /\ [](pc \notin {"diagnose", "fix", "commit"} =>
            nCommit = Cardinality(C27_PassesWithFix))

\* clone_repo or create_branch has raised
C28_SetupFailed == raised_in \in {"clone", "branch"}

\* C28: when the clone or the creation of the branch fails, the run is
\* over: run_pipeline does nothing more but leave, no test pass is executed,
\* the worker stores status "failed" and the text of the error, the stored
\* result stays null and the status is never "completed".
C28_SetupFailureAborts ==
    /\ [](C28_SetupFailed =>
            /\ pc \in {"finally", "exit"}
            /\ nExec = 0
            /\ run.result = NoResult
            /\ run.status \in {"running", "failed"}
            /\ worker # "done" => ENABLED NextRun
            /\ worker = "done" =>
                  run.status = "failed" /\ run.error = str_exc(raised_in))
    /\ [][ C28_SetupFailed /\ run.status = "failed" => run'.status = "failed" ]_vars

C28_Witness ==
    /\ raised_in = "branch"
    /\ worker = "done"
    /\ run.status = "failed"
    /\ checkout = "removed"

\* C29: the score breakdown of a payload has base 100, time bonus 10 when
\* the run took less than 5 minutes and 0 otherwise, commit penalty 2 for
\* every commit beyond the 20th, and a total of base plus bonus minus
\* penalty, or 0 when that is negative.
C29_ScoreBreakdown ==
    lastCall.fn = "generate_results" =>
        LET score   == lastCall.score_breakdown
            bonus   == IF lastCall.total_seconds < 300 THEN 10 ELSE 0
            penalty == IF lastCall.commit_count > 20
                       THEN 2 * (lastCall.commit_count - 20) ELSE 0
        IN  /\ score.base = 100
            /\ score.time_bonus = bonus
            /\ score.commit_penalty = penalty
            /\ score.total >= 0
            /\ score.total = IF 100 + bonus - penalty < 0 THEN 0
                             ELSE 100 + bonus - penalty

C29_Witness ==
    /\ lastCall.fn = "generate_results"
    /\ lastCall.total_seconds = 299
    /\ lastCall.commit_count = 80
    /\ lastCall.score_breakdown.commit_penalty = 120
    /\ lastCall.score_breakdown.total = 0

\* the directories of installed or vendored code
C30_VendorMarks ==
    { <<"s", "i", "t", "e", "-", "p", "a", "c", "k", "a", "g", "e", "s">>,
      <<".", "v", "e", "n", "v">>,
      <<"A", "p", "p", "D", "a", "t", "a">> }

C30_IsVendor(path) == \E mark \in C30_VendorMarks : Contains(path, mark)

\* the line names a file of a vendor directory, in either shape
C30_VendorLine(line) ==
    /\ C30_IsVendor(line)
    /\ \/ Contains(line, <<".", "p", "y", "\"", ",", "sp", "l", "i", "n", "e", "sp">>)
       \/ Contains(line, <<".", "p", "y", ":">>)

\* C30: no record the parser returns names a file under site-packages,
\* .venv or AppData, whichever of the two shapes the reference has; an
\* output whose only references are such files gives no record of a
\* specific source file.
C30_NoVendorRecord ==
    lastCall.fn = "_parse_failures" =>
        /\ \A k \in 1..Len(lastCall.failures) :
              ~C30_IsVendor(lastCall.failures[k].file)
        /\ (/\ lastCall.lines # <<>>
            /\ \A k \in 1..Len(lastCall.lines) : C30_VendorLine(lastCall.lines[k]))
              => lastCall.failures = <<>>

\* the message was written by a call of update_live that named the phase,
\* or both are those analyze stored
C31_WrittenFor(obs) ==
    \/ obs.phase = "queued" /\ obs.message = <<"Queued">>
    \/ \E site \in LiveSites :
          site.phase = obs.phase /\ site.text = obs.message[1]

\* what the pollers of the live record have read
C31_Observations ==
    { pollers[p] : p \in LivePollers } \ {NoObservation}

\* C31: whatever a poller reads, the message it reads was written for the
\* phase it reads, and every call of update_live that changes the phase
\* also appends to the terminal-output buffer.
C31_MessageOfPhase ==
    /\ [](\A obs \in C31_Observations : C31_WrittenFor(obs))
    /\ [][ phase' # phase => lastCall.append_terminal # None ]_vars

IsPrefix(s, t) == Len(s) <= Len(t) /\ SubSeq(t, 1, Len(s)) = s

\* C32: what a poller reads at one time is a prefix of what it reads the
\* next time (and so at any later time), for the terminal-output buffer and
\* for the sequence of Iteration Summaries; the live record itself only
\* grows at the end.
C32_AppendOnly ==
    /\ [][ \A p \in LivePollers :
             pollers[p] # NoObservation /\ pollers'[p] # pollers[p]
                => /\ IsPrefix(pollers[p].terminal_output,
                               pollers'[p].terminal_output)
                   /\ IsPrefix(pollers[p].iterations, pollers'[p].iterations)
         ]_vars
    /\ [][ /\ IsPrefix(terminal_output, terminal_output')
           /\ IsPrefix(Iterations, Iterations') ]_vars

\* a poller reads the live record of the third pass after it had read it
\* earlier: the buffer and the sequence of summaries had both grown
C32_Witness ==
    \E p \in LivePollers :
        /\ pollers[p] # NoObservation
        /\ pollers[p].grown
        /\ Len(pollers[p].iterations) = 2
        /\ pollers[p].phase = "execution"

\* the call of _apply_fix under test got as far as generate_fix
C33_Generated == lastFix.call = "done" /\ lastFix.generated

\* C33: generate_fix returns the remote backend's answer when there is one,
\* else the local backend's answer, else the original content; in the last
\* case _apply_fix writes nothing, raises nothing and returns an entry with
\* status failed.  When an accepted patch gets no commit message from the
\* backend, the entry carries the template message and has status fixed.
C33_BackendsInOrder ==
    C33_Generated =>
        LET inp == lastFix.inp
        IN  /\ inp.nvidia # BackendFail
                => lastFix.fixed_code = Strip(inp.nvidia)
            /\ inp.nvidia = BackendFail /\ inp.ollama # BackendFail
                => lastFix.fixed_code = Strip(inp.ollama)
            /\ inp.nvidia = BackendFail /\ inp.ollama = BackendFail
                => /\ lastFix.fixed_code = lastFix.original_code
                   /\ lastFix.entry.status = "failed"
                   /\ ~lastFix.wrote
                   /\ ~lastFix.raised
                   /\ ~lastFix.error
                   /\ disk = lastFix.disk_before
            /\ lastFix.wrote /\ inp.nvidia_msg = BackendFail
                => /\ lastFix.commit_message = "fallback"
                   /\ lastFix.entry.status = "fixed"
                   /\ ~lastFix.raised

\* both backends failed for a file that exists and could be read
C33_Witness ==
    /\ C33_Generated
    /\ lastFix.inp.nvidia = BackendFail
    /\ lastFix.inp.ollama = BackendFail
    /\ lastFix.entry.status = "failed"
    /\ lastFix.fixed_code = <<"a", "nl">>

\* the local backend's patch was accepted and no commit message was obtained
C33_FallbackMessage ==
    /\ C33_Generated
    /\ lastFix.inp.nvidia = BackendFail
    /\ lastFix.inp.ollama = <<"b">>
    /\ lastFix.inp.nvidia_msg = BackendFail
    /\ lastFix.wrote
    /\ lastFix.commit_message = "fallback"

\* the test files the pass in progress has run and collected
C34_Collected == { tf \in DOMAIN futures : futures[tf].state = "collected" }

C35_PayloadAfterLoop == result # NoResult /\ nExec > 0

\* C35: in a payload made after the loop every Iteration Summary but the
\* last has status FAIL; the final status is PASSED exactly when the last
\* summary has status PASS, and FAILED exactly when there are MAX_RETRIES
\* summaries and the last of them has status FAIL.
C35_TimelineAndStatus ==
    C35_PayloadAfterLoop =>
        LET timeline == result.cicd_timeline
            n        == Len(timeline)
        IN  /\ n >= 1
            /\ \A k \in 1..(n - 1) : timeline[k].status = "FAIL"
            /\ result.final_ci_status = "PASSED" <=> timeline[n].status = "PASS"
            /\ result.final_ci_status = "FAILED"
                  <=> n = MAX_RETRIES /\ timeline[n].status = "FAIL"
            /\ result.final_ci_status \in {"PASSED", "FAILED"}

\* two failing passes, then a pass without failures
C35_Witness ==
    /\ C35_PayloadAfterLoop
    /\ Len(result.cicd_timeline) = 3
    /\ result.cicd_timeline[2].status = "FAIL"
    /\ result.cicd_timeline[3].status = "PASS"
    /\ result.final_ci_status = "PASSED"

\* the failures counted by the first n summaries of a timeline
RECURSIVE C36_Failures(_, _)
C36_Failures(timeline, n) ==
    IF n = 0 THEN 0
    ELSE C36_Failures(timeline, n - 1) + timeline[n].failures_count

\* the pass whose failures include the k-th failure of the run
C36_PassOf(timeline, k) ==
    CHOOSE i \in 1..Len(timeline) :
        /\ C36_Failures(timeline, i - 1) < k
        /\ k <= C36_Failures(timeline, i)

\* C36: in every payload the number of Fix Entries, reported as
\* failures_found, is the sum of the failure counts of the Iteration
\* Summaries (those with status FAIL; a PASS summary counts none) and the
\* sum of fixes_applied and fixes_failed, and every Fix Entry carries the
\* number of the pass that produced it.
C36_FixAccounting ==
    result # NoResult =>
        LET timeline == result.cicd_timeline
            fixes    == result.fixes_table
        IN  /\ result.failures_found = Len(fixes)
            /\ result.failures_found = C36_Failures(timeline, Len(timeline))
            /\ \A i \in 1..Len(timeline) :
                  /\ timeline[i].iteration = i
                  /\ timeline[i].status = "PASS" => timeline[i].failures_count = 0
            /\ result.failures_found
                  = result.fixes_applied + result.fixes_failed
            /\ \A k \in 1..Len(fixes) :
                  fixes[k].iteration = C36_PassOf(timeline, k)

\* three passes: two failures in the first, one in the second, none in the
\* third; fixes were applied and fixes failed
C36_Witness ==
    /\ result # NoResult
    /\ Len(result.cicd_timeline) = 3
    /\ result.cicd_timeline[1].failures_count = 2
    /\ result.cicd_timeline[2].failures_count = 1
    /\ result.failures_found = 3
    /\ result.fixes_applied = 2
    /\ result.fixes_failed = 1
    /\ result.fixes_table[3].iteration = 2

\* the commits of the run, told by the identifiers its Fix Entries carry
C37_Shas == { all_fixes[k].sha : k \in 1..Len(all_fixes) } \ {NoSha}

\* C37: commit_count is the number of passes whose commit and push
\* succeeded; it is at most the number of passes executed, which is at most
\* MAX_RETRIES.  So every payload has a commit penalty of 0 and a total
\* score of 100 or 110.
C37_CommitsAndScore ==
    /\ commit_count = Cardinality(C37_Shas)
    /\ commit_count <= nCommit
    /\ nCommit <= nExec
    /\ nExec <= MAX_RETRIES
    /\ result # NoResult =>
          /\ result.total_commits = commit_count
          /\ result.score_breakdown.commit_penalty = 0
          /\ result.score_breakdown.total \in {100, 110}

\* a run of three passes with two pushed commits, shorter than five minutes
C37_Witness ==
    /\ result # NoResult
    /\ nExec = 3
    /\ nCommit = 2
    /\ result.total_commits = 2
    /\ result.score_breakdown.total = 110

\* the text the backend asked by generate_fix answered with, if one answered
C38_Answer ==
    IF lastFix.inp.nvidia # BackendFail THEN lastFix.inp.nvidia
    ELSE lastFix.inp.ollama

\* C38: when the backend's answer is the very content of the file,
\* _apply_fix writes nothing and returns an entry with status failed,
\* whatever white space the content begins or ends with.
C38_SameTextIsNoFix ==
    /\ lastFix.call = "done"
    /\ lastFix.generated
    /\ C38_Answer # BackendFail
    /\ C38_Answer = lastFix.original_code
    => /\ ~lastFix.wrote
       /\ lastFix.entry.status = "failed"
       /\ disk = lastFix.disk_before

\* C39: a run that produces a payload writes results.json once, and the file
\* written is still there when run_pipeline has returned.
C39_ArtifactPersists ==
    /\ [](result # NoResult => artifact # "none")
    /\ [][ artifact' = "written" /\ artifact # "written" => artifact = "none" ]_vars
    /\ [](outcome = "returned" => artifact = "written")

=============================================================================
